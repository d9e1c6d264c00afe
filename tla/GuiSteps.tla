------------------------------ MODULE GuiSteps ------------------------------
(***************************************************************************)
(* The three calls a scenario function of the GUI regression harness is    *)
(* made of, as data.  A scenario is the sequence of its calls; the run is  *)
(* the sequence of scenario functions testGUI() calls.                     *)
(*                                                                         *)
(*   TestGUI(name, page, gets, expect)   -> GuiStep(tbl, op, facts, ref, expect) *)
(*   TestDBCount(table, condition, num)  -> CountStep(tbl, facts, ref, st, num)  *)
(*   x = DBGetID(table, condition, col)  -> GetIDStep(tbl, facts, ref, st, "x")  *)
(*                                                                         *)
(* The query string of a request is abstracted to the operation it selects *)
(* (register=add, update, delete, changestatus, ...), the table it writes, *)
(* the column=value facts it stores, and the id it names.  A WHERE clause  *)
(* is abstracted to its facts, its id and its status.  An id is written   *)
(* in the source either as a number or as str(x) of a local variable x    *)
(* that an earlier DBGetID set: Lit(n) and Var("x").  The expected        *)
(* pattern is abstracted to the phrase it looks for: "done" for the       *)
(* success phrase of the page ("Host added", "Media type deleted", ...)    *)
(* and "exists" for a refused duplicate ("already exists", "Cannot add    *)
(* network map").                                                         *)
(***************************************************************************)
EXTENDS Naturals

AnyStatus == "any"
NoRef == [kind |-> "none", v |-> 0]
Lit(n) == [kind |-> "lit", v |-> n]
Var(x) == [kind |-> "var", v |-> x]

GuiStep(t, op, fs, ref, expect) ==
  [kind |-> "gui", tbl |-> t, op |-> op, facts |-> fs, ref |-> ref,
   st |-> AnyStatus, expect |-> expect, num |-> 0, var |-> ""]

(* register=changestatus: the status the request sets. *)
StatusStep(t, ref, st) ==
  [GuiStep(t, "status", {}, ref, "done") EXCEPT !.st = st]

CountStep(t, fs, ref, st, num) ==
  [kind |-> "count", tbl |-> t, op |-> "", facts |-> fs, ref |-> ref,
   st |-> st, expect |-> "", num |-> num, var |-> ""]

GetIDStep(t, fs, ref, st, x) ==
  [kind |-> "getid", tbl |-> t, op |-> "", facts |-> fs, ref |-> ref,
   st |-> st, expect |-> "", num |-> 0, var |-> x]

(* The facts a run's steps mention. *)
StepFacts(run) == UNION {UNION {run[s][i].facts : i \in DOMAIN run[s]} : s \in DOMAIN run}
=============================================================================
