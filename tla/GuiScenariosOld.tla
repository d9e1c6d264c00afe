-------------------------- MODULE GuiScenariosOld ---------------------------
(***************************************************************************)
(* The scenario functions of test/regression/gui.py and the order the      *)
(* module-level calls run them in, one step per TestGUI, TestDBCount and  *)
(* DBGetID call, abstracted as in GuiScenariosZbx.                        *)
(*                                                                         *)
(* The file defines GUI_Config_Maps twice; the second definition (graphs) *)
(* replaces the first (network maps) before the call runs, so the run     *)
(* holds the graphs body under that name and no network map step.        *)
(***************************************************************************)
EXTENDS GuiSteps, Sequences

GUI_Login ==
  << GuiStep("sessions", "login", {}, NoRef, "done"),
     CountStep("sessions", {}, NoRef, AnyStatus, 1),
     GuiStep("sessions", "logout", {}, NoRef, "done"),
     CountStep("sessions", {}, NoRef, AnyStatus, 0) >>

GUI_Config_General_Housekeeper ==
  << GuiStep("config", "update", {"alert_history=360"}, Lit(1), "done"),
     CountStep("config", {"alert_history=360"}, NoRef, AnyStatus, 1) >>

(* Defect variant: the hard-coded id is one past the new media type. *)
GUI_Config_General_Mediatype_WrongId ==
  << GuiStep("media_type", "add", {"description=Zzz"}, NoRef, "done"),
     CountStep("media_type", {"description=Zzz"}, NoRef, AnyStatus, 1),
     GuiStep("media_type", "delete", {}, Lit(3), "done"),
     CountStep("media_type", {"description=Zzz"}, NoRef, AnyStatus, 0) >>

(* The delete names mediatypeid=2: the id the seed's counter gives next. *)
GUI_Config_General_Mediatype ==
  << GuiStep("media_type", "add", {"description=Zzz"}, NoRef, "done"),
     CountStep("media_type", {"description=Zzz"}, NoRef, AnyStatus, 1),
     GuiStep("media_type", "delete", {}, Lit(2), "done"),
     CountStep("media_type", {"description=Zzz"}, NoRef, AnyStatus, 0) >>

(* Defect variant: the id is looked up before the user is added. *)
GUI_Config_Users_LookupFirst ==
  << GetIDStep("users", {"alias=Regression"}, NoRef, AnyStatus, "id"),
     GuiStep("users", "add", {"alias=Regression", "form=1"}, NoRef, "done"),
     CountStep("users", {"alias=Regression", "form=1"}, NoRef, AnyStatus, 1),
     GuiStep("users", "update", {"alias=Regression2", "form=2"}, Var("id"), "done"),
     CountStep("users", {"alias=Regression2", "form=2"}, Var("id"), AnyStatus, 1),
     GuiStep("users", "delete", {}, Var("id"), "done"),
     CountStep("users", {}, Var("id"), AnyStatus, 0) >>

GUI_Config_Users ==
  << GuiStep("users", "add", {"alias=Regression", "form=1"}, NoRef, "done"),
     CountStep("users", {"alias=Regression", "form=1"}, NoRef, AnyStatus, 1),
     GetIDStep("users", {"alias=Regression"}, NoRef, AnyStatus, "id"),
     GuiStep("users", "update", {"alias=Regression2", "form=2"}, Var("id"), "done"),
     CountStep("users", {"alias=Regression2", "form=2"}, Var("id"), AnyStatus, 1),
     GuiStep("users", "delete", {}, Var("id"), "done"),
     CountStep("users", {}, Var("id"), AnyStatus, 0) >>

GUI_Config_Media ==
  << GuiStep("users", "add", {"alias=Regression", "form=1"}, NoRef, "done"),
     CountStep("users", {"alias=Regression", "form=1"}, NoRef, AnyStatus, 1),
     GetIDStep("users", {"alias=Regression"}, NoRef, AnyStatus, "userid"),
     GuiStep("media", "add", {"sendto=alex@zabbix.com"}, NoRef, "done"),
     CountStep("media", {"sendto=alex@zabbix.com"}, NoRef, AnyStatus, 1),
     GetIDStep("media", {"sendto=alex@zabbix.com"}, NoRef, AnyStatus, "mediaid"),
     GuiStep("media", "update", {"sendto=test@zabbix.com"}, Var("mediaid"), "done"),
     CountStep("media", {"sendto=test@zabbix.com"}, Var("mediaid"), AnyStatus, 1),
     GuiStep("media", "delete", {}, Var("mediaid"), "done"),
     CountStep("media", {}, Var("mediaid"), AnyStatus, 0) >>

(* This frontend deletes hosts for good: the last check expects 0. *)
GUI_Config_Hosts ==
  << GuiStep("hosts", "add", {"host=regression"}, NoRef, "done"),
     CountStep("hosts", {"host=regression"}, NoRef, AnyStatus, 1),
     GetIDStep("hosts", {"host=regression"}, NoRef, AnyStatus, "id"),
     GuiStep("hosts", "add", {"host=regression"}, NoRef, "exists"),
     CountStep("hosts", {"host=regression"}, NoRef, AnyStatus, 1),
     GuiStep("hosts", "delete", {}, Var("id"), "done"),
     CountStep("hosts", {"host=regression"}, NoRef, AnyStatus, 0) >>

GUI_Config_Hosts_Groups ==
  << GuiStep("groups", "add", {"name=Regression"}, NoRef, "done"),
     CountStep("groups", {"name=Regression"}, NoRef, AnyStatus, 1),
     GetIDStep("groups", {"name=regression"}, NoRef, AnyStatus, "id"),
     GuiStep("groups", "add", {"name=Regression"}, NoRef, "exists"),
     CountStep("groups", {"name=Regression"}, NoRef, AnyStatus, 1),
     GuiStep("groups", "delete", {}, Var("id"), "done"),
     CountStep("groups", {"name=Regression"}, NoRef, AnyStatus, 0) >>

(* The second GUI_Config_Maps: graphs; the delete names graphid=1. *)
GUI_Config_Maps ==
  << GuiStep("graphs", "add", {"name=Regression"}, NoRef, "done"),
     CountStep("graphs", {"name=Regression"}, NoRef, AnyStatus, 1),
     GuiStep("graphs", "delete", {}, Lit(1), "done"),
     CountStep("graphs", {"name=Regression"}, NoRef, AnyStatus, 0) >>

(* The update is checked by id only, not by its new name 'Yo'. *)
GUI_Config_Screens ==
  << GuiStep("screens", "add", {"name=Regression"}, NoRef, "done"),
     CountStep("screens", {"name=Regression"}, NoRef, AnyStatus, 1),
     GetIDStep("screens", {"name=Regression"}, NoRef, AnyStatus, "id"),
     GuiStep("screens", "update", {"name=Yo"}, Var("id"), "done"),
     CountStep("screens", {}, Var("id"), AnyStatus, 1),
     GuiStep("screens", "delete", {}, Var("id"), "done"),
     CountStep("screens", {}, Var("id"), AnyStatus, 0) >>

(* serviceid appears twice in the query string; PHP keeps the last, 1. *)
GUI_Config_Services ==
  << GuiStep("services", "add", {"name=IT Services"}, NoRef, "done"),
     CountStep("services", {"name=IT Services"}, NoRef, AnyStatus, 1),
     GetIDStep("services", {"name=IT Services"}, NoRef, AnyStatus, "id"),
     GuiStep("services", "update", {"name=IT Services new"}, Lit(1), "done"),
     CountStep("services", {}, Var("id"), AnyStatus, 1),
     GuiStep("services", "delete", {}, Lit(1), "done"),
     CountStep("services", {}, Var("id"), AnyStatus, 0) >>

(* The module-level calls after InitDB(). *)
OldRun ==
  << GUI_Login, GUI_Config_General_Housekeeper,
     GUI_Config_General_Mediatype, GUI_Config_Users, GUI_Config_Media,
     GUI_Config_Hosts, GUI_Config_Hosts_Groups, GUI_Config_Maps,
     GUI_Config_Screens, GUI_Config_Services >>

OldCaptVars == {"id", "userid", "mediaid"}
=============================================================================
