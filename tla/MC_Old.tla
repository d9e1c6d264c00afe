------------------------------- MODULE MC_Old -------------------------------
(***************************************************************************)
(* The harness of test/regression/gui.py against a frontend that deletes   *)
(* hosts for good, as that file's own checks expect.                       *)
(***************************************************************************)
EXTENDS GuiHarness, GuiScenariosOld, ZabbixSeed

(* The end state of a previous fault-free run of this file: the user     *)
(* GUI_Config_Media adds stays, and the counters have moved past every    *)
(* row the run inserted.                                                 *)
LeftoverDB ==
  [SeedDB EXCEPT
     !["config"] = {SRow(1, {"alert_history=360"})},
     !["users"] = @ \cup {SRow(4, {"alias=Regression", "form=1"})}]

LeftoverNextIds ==
  [NextAfter(LeftoverDB) EXCEPT
     !["sessions"] = 2, !["media_type"] = 3, !["media"] = 2, !["hosts"] = 3,
     !["groups"] = 3, !["graphs"] = 2, !["screens"] = 2, !["services"] = 2]

OldFacts == StepFacts(OldRun) \cup DBFacts(SeedDB) \cup DBFacts(LeftoverDB)
OldFold == FoldFacts(OldFacts)
=============================================================================
