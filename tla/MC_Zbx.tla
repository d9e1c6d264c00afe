------------------------------- MODULE MC_Zbx -------------------------------
(***************************************************************************)
(* The harness of ZBX-1229-ipv4_as_ipv6_old_one/test/regression/gui.py     *)
(* against a frontend that deletes hosts softly (status=4), as that file's *)
(* own checks expect.                                                      *)
(***************************************************************************)
EXTENDS GuiHarness, GuiScenariosZbx, ZabbixSeed

(* The end state of a previous fault-free run of this file: the user     *)
(* GUI_Config_Media adds and the screen GUI_Config_Screen_Elements adds  *)
(* stay, the hosts the scenarios added stay with status=4, and the       *)
(* counters have moved past every row the run inserted.                  *)
LeftoverDB ==
  [SeedDB EXCEPT
     !["config"] = {SRow(1, {"alert_history=33"})},
     !["users"] = @ \cup {SRow(4, {"alias=Regression", "form=1"})},
     !["hosts"] = @ \cup {Gone(SRow(2, {"host=regression"})),
                          Gone(SRow(3, {"host=regression"})),
                          Gone(SRow(4, {"host=regression3"})),
                          Gone(SRow(5, {"host=regression"})),
                          Gone(SRow(6, {"host=regression"}))},
     !["screens"] = {SRow(2, {"name=Regression"})}]

LeftoverNextIds ==
  [NextAfter(LeftoverDB) EXCEPT
     !["sessions"] = 2, !["media_type"] = 4, !["autoreg"] = 2, !["users"] = 5,
     !["media"] = 2, !["groups"] = 3, !["hosts_templates"] = 2, !["items"] = 3,
     !["triggers"] = 2, !["sysmaps"] = 2, !["graphs"] = 2, !["services"] = 2]

ZbxFacts == StepFacts(ZbxRun) \cup DBFacts(SeedDB) \cup DBFacts(LeftoverDB)
ZbxFold == FoldFacts(ZbxFacts)
=============================================================================
