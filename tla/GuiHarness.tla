----------------------------- MODULE GuiHarness -----------------------------
(***************************************************************************)
(* The GUI regression harness (test/regression/gui.py): testGUI() calls     *)
(* InitDB() once and then each scenario function in turn; a scenario is a  *)
(* straight-line sequence of TestGUI, TestDBCount and DBGetID calls.       *)
(* Nothing is caught: an exception in any call ends the whole process.     *)
(*                                                                         *)
(* The harness is one thread.  Beside it run the frontend it drives        *)
(* (ZabbixFrontend, one atomic step per request) and, when PurgeEnabled,  *)
(* the Zabbix server's housekeeper, which may remove soft-deleted rows     *)
(* between any two harness steps.  Faults of the environment (an error    *)
(* page, a lost write, a broken connection, a failed reset) are injected  *)
(* at most MaxFaults times and recorded in the history variable faults.    *)
(***************************************************************************)
EXTENDS Naturals, Sequences, FiniteSets, TLC, GuiSteps

CONSTANTS
  Run,                    \* Seq(Seq(step)): the scenario functions, in order
  CaptVars,               \* local variables that receive a DBGetID result
  Seed, SeedNext,         \* database and auto-increment counters after InitDB
  Leftover, LeftoverNext, \* the database a previous run left behind
  MaxFaults,              \* bound on injected faults in one run
  SnapshotReads,          \* the harness's connection reads one snapshot
  PurgeEnabled,           \* the server housekeeper runs during the test
  Facts, FoldCase, CaseInsensitive, UniqueTables, SoftDeleteTables,
  DeletedRowsBlockNames, Dependent

ASSUME \A s \in DOMAIN Run : \A i \in DOMAIN Run[s] :
         /\ Run[s][i].tbl \in DOMAIN Seed
         /\ Run[s][i].facts \subseteq Facts
         /\ Run[s][i].kind = "getid" => Run[s][i].var \in CaptVars
ASSUME MaxFaults \in Nat /\ PurgeEnabled \in BOOLEAN /\ SnapshotReads \in BOOLEAN

F == INSTANCE ZabbixFrontend

VARIABLES
  phase,     \* "init", "running", "done" or "crashed" (uncaught exception)
  sc,        \* index in Run of the scenario function being executed
  step,      \* 0: called, header not yet printed; i: about to run call i
  capt,      \* the scenario's local variables set by DBGetID: var -> id
  db,        \* the database (ZabbixFrontend rows), table -> set of rows
  nextId,    \* auto-increment counters, table -> next id
  verdicts,  \* what the harness reported: <<[sc, step, ok]>>, "NOT OK" = ~ok
  faults,    \* history: <<[kind, at, sc, step]>>, at = Len(verdicts) then
  snap       \* {} or {d}: the database the connection's open transaction reads

vars == <<phase, sc, step, capt, db, nextId, verdicts, faults, snap>>

CaptVal == [id: Nat \ {0}, born: Nat]
FaultKinds == {"reset", "error", "lost", "transport", "hang"}

TypeOK ==
  /\ phase \in {"init", "running", "done", "crashed", "hung"}
  /\ sc \in 1..Len(Run) + 1
  /\ sc <= Len(Run) => step \in 0..Len(Run[sc]) + 1
  /\ DOMAIN capt \subseteq CaptVars /\ \A v \in DOMAIN capt : capt[v] \in CaptVal
  /\ db \in [DOMAIN Seed -> SUBSET F!Row]
  /\ nextId \in [DOMAIN Seed -> Nat \ {0}]
  /\ verdicts \in Seq([sc: Nat, step: Nat, ok: BOOLEAN])
  /\ faults \in Seq([kind: FaultKinds, at: Nat, sc: Nat, step: Nat])
  /\ snap \subseteq [DOMAIN Seed -> SUBSET F!Row] /\ Cardinality(snap) <= 1

Cur == Run[sc][step]
InScenario == phase = "running" /\ sc <= Len(Run) /\ step \in 1..Len(Run[sc])

(* str(x) of a captured local, a number written in the query, or no id. *)
IdOf(ref) == CASE ref.kind = "var" -> capt[ref.v].id
               [] ref.kind = "lit" -> ref.v
               [] ref.kind = "none" -> 0

Request(s) == [op |-> s.op, tbl |-> s.tbl, facts |-> s.facts,
               id |-> IdOf(s.ref), st |-> s.st]
(***************************************************************************)
(* The module-level MySQLdb connection is opened once and never commits   *)
(* (MySQLdb turns autocommit off).  With SnapshotReads (InnoDB tables,     *)
(* REPEATABLE READ) its first SELECT opens a transaction whose snapshot   *)
(* every later SELECT reads; otherwise each SELECT sees the current rows. *)
(***************************************************************************)
View == IF snap = {} THEN db ELSE CHOOSE d \in snap : TRUE
ReadSnap == snap' = IF SnapshotReads /\ snap = {} THEN {db} ELSE snap

Rows(s) == F!Select(View, s.tbl, s.facts, IdOf(s.ref), s.st)

Record(ok) ==
  /\ verdicts' = Append(verdicts, [sc |-> sc, step |-> step, ok |-> ok])
  /\ step' = step + 1

CanFault == Len(faults) < MaxFaults
Inject(k) == faults' = Append(faults, [kind |-> k, at |-> Len(verdicts),
                                       sc |-> sc, step |-> step])

(***************************************************************************)
(* InitDB(): five os.system() calls whose exit codes are ignored.  When    *)
(* they work the database is the seed; when they fail the run goes on     *)
(* against what the previous run left behind.                              *)
(***************************************************************************)
InitDB ==
  /\ phase = "init"
  /\ \/ /\ db' = Seed /\ nextId' = SeedNext
        /\ UNCHANGED faults
     \/ /\ CanFault /\ Inject("reset")
        /\ UNCHANGED <<db, nextId>>
  /\ phase' = "running"
  /\ UNCHANGED <<sc, step, capt, verdicts, snap>>

(* The header line every scenario function prints first. *)
Enter ==
  /\ phase = "running" /\ sc <= Len(Run) /\ step = 0
  /\ step' = 1
  /\ UNCHANGED <<phase, sc, capt, db, nextId, verdicts, faults, snap>>

(***************************************************************************)
(* TestGUI: one GET request; "GUI: NOT OK" unless the page matches         *)
(* '.*expect.*'.  The environment may answer with an error page (nothing  *)
(* written), lose the write behind a normal answer, or break the          *)
(* connection before or after the request was handled: httplib raises and *)
(* the process ends.                                                       *)
(***************************************************************************)
TestGUI ==
  /\ InScenario /\ Cur.kind = "gui"
  /\ LET res == F!Handle(db, nextId, sc, Request(Cur)) IN
     \/ /\ db' = res.db /\ nextId' = res.nid
        /\ Record(res.out = Cur.expect)
        /\ UNCHANGED <<phase, faults>>
     \/ /\ CanFault /\ Inject("error")
        /\ Record(FALSE)
        /\ UNCHANGED <<phase, db, nextId>>
     \/ /\ CanFault /\ res.db # db /\ Inject("lost")
        /\ Record(res.out = Cur.expect)
        /\ UNCHANGED <<phase, db, nextId>>
     \/ /\ CanFault /\ \E k \in {"transport", "hang"} :
             /\ Inject(k)
             /\ phase' = IF k = "hang" THEN "hung" ELSE "crashed"
        /\ \E handled \in BOOLEAN :
             /\ db' = IF handled THEN res.db ELSE db
             /\ nextId' = IF handled THEN res.nid ELSE nextId
        /\ UNCHANGED <<step, verdicts>>
  /\ UNCHANGED <<sc, capt, snap>>

(* TestDBCount: "DB: NOT OK" unless the SELECT count returns exactly num. *)
TestDBCount ==
  /\ InScenario /\ Cur.kind = "count"
  /\ Record(Cardinality(Rows(Cur)) = Cur.num)
  /\ ReadSnap
  /\ UNCHANGED <<phase, sc, capt, db, nextId, faults>>

(* Defect variant: DBGetID returns the whole row instead of row[0]. *)
DBGetIDWholeRow ==
  /\ InScenario /\ Cur.kind = "getid"
  /\ \/ /\ Rows(Cur) = {}
        /\ phase' = "crashed"
        /\ UNCHANGED <<step, capt>>
     \/ \E r \in Rows(Cur) :
          /\ capt' = (Cur.var :> r) @@ capt
          /\ step' = step + 1
          /\ UNCHANGED phase
  /\ ReadSnap
  /\ UNCHANGED <<sc, db, nextId, verdicts, faults>>

(***************************************************************************)
(* DBGetID: fetchone() of a SELECT without ORDER BY: any matching row, or  *)
(* None when there is none, and None[0] raises TypeError.                 *)
(***************************************************************************)
DBGetID ==
  /\ InScenario /\ Cur.kind = "getid"
  /\ \/ /\ Rows(Cur) = {}
        /\ phase' = "crashed"
        /\ UNCHANGED <<step, capt>>
     \/ \E r \in Rows(Cur) :
          /\ capt' = (Cur.var :> [id |-> r.id, born |-> r.born]) @@ capt
          /\ step' = step + 1
          /\ UNCHANGED phase
  /\ ReadSnap
  /\ UNCHANGED <<sc, db, nextId, verdicts, faults>>

(* Defect variant: the locals of one scenario survive into the next. *)
ReturnKeepsLocals ==
  /\ phase = "running" /\ sc <= Len(Run) /\ step = Len(Run[sc]) + 1
  /\ sc' = sc + 1
  /\ step' = 0
  /\ phase' = IF sc = Len(Run) THEN "done" ELSE "running"
  /\ UNCHANGED <<capt, db, nextId, verdicts, faults, snap>>

(* Defect variant: the scenario returns before its last call. *)
ReturnEarly ==
  /\ phase = "running" /\ sc <= Len(Run) /\ step = Len(Run[sc])
  /\ sc' = sc + 1
  /\ step' = 0
  /\ capt' = <<>>
  /\ phase' = IF sc = Len(Run) THEN "done" ELSE "running"
  /\ UNCHANGED <<db, nextId, verdicts, faults, snap>>

(* A scenario function returns; its locals are gone; testGUI calls the next. *)
Return ==
  /\ phase = "running" /\ sc <= Len(Run) /\ step = Len(Run[sc]) + 1
  /\ sc' = sc + 1
  /\ step' = 0
  /\ capt' = <<>>
  /\ phase' = IF sc = Len(Run) THEN "done" ELSE "running"
  /\ UNCHANGED <<db, nextId, verdicts, faults, snap>>

(* The server housekeeper deletes the hosts a soft delete marked. *)
Housekeeper ==
  /\ PurgeEnabled /\ phase = "running"
  /\ F!Purge(db) # db
  /\ db' = F!Purge(db)
  /\ UNCHANGED <<phase, sc, step, capt, nextId, verdicts, faults, snap>>

Init ==
  /\ phase = "init"
  /\ sc = 1
  /\ step = 0
  /\ capt = <<>>
  /\ db = Leftover
  /\ nextId = LeftoverNext
  /\ verdicts = <<>>
  /\ faults = <<>>
  /\ snap = {}

HarnessStep == InitDB \/ Enter \/ TestGUI \/ TestDBCount \/ DBGetID \/ Return

Next == HarnessStep \/ Housekeeper

(* The harness is a single thread that never waits for anything but its  *)
(* own blocking calls, so it keeps taking steps while it can.            *)
Spec == Init /\ [][Next]_vars /\ WF_vars(HarnessStep)

(***************************************************************************)
(* Properties.                                                             *)
(***************************************************************************)

(* Every "NOT OK" the harness prints comes after some fault of the       *)
(* environment: against a frontend and database that behave as the       *)
(* scenarios expect, the scenarios (their ids, names, counts and their    *)
(* order across the run) report nothing.                                  *)
NoFalseAlarm ==
  \A i \in 1..Len(verdicts) :
    ~verdicts[i].ok => \E j \in 1..Len(faults) : faults[j].at < i

(* The run ends with an exception (a DBGetID that finds no row) only     *)
(* after a fault of the environment, never because of what the frontend  *)
(* or the server housekeeper did between two calls.                       *)
NoSpuriousCrash == phase = "crashed" => faults # <<>>

(* In a fault-free run, every id a DBGetID stores in a local names a row  *)
(* inserted by the scenario that is running, never a row an earlier       *)
(* scenario left behind with a matching name.                            *)
CapturedIdOwn ==
  faults = <<>> => \A v \in DOMAIN capt : capt[v].born = sc

(* A write the frontend acknowledged but lost is reported by a "NOT OK"  *)
(* of the scenario it happened in, before that scenario function returns: *)
(* each scenario's own checks notice what went wrong in it, rather than   *)
(* some later scenario tripping over it.                                  *)
FaultsDetected ==
  \A j \in 1..Len(faults) :
    faults[j].kind = "lost" /\ sc > faults[j].sc =>
      \E i \in 1..Len(verdicts) :
        i > faults[j].at /\ verdicts[i].sc = faults[j].sc /\ ~verdicts[i].ok

(* Every scenario function eventually runs to its end. *)
AllScenariosRun == <>(phase = "done")

(* The process's exit status once the run is over: an uncaught exception *)
(* exits 1; returning from the last scenario ends the script with 0,     *)
(* whatever it printed.                                                   *)
ExitStatus == IF phase = "crashed" THEN 1 ELSE 0

(* A finished run exits non-zero exactly when some call printed "NOT OK" *)
(* or a scenario was cut short (spec.md 7), so a pipeline running the     *)
(* harness can tell a failing run from a clean one.                       *)
ExitStatusReflectsVerdicts ==
  phase \in {"done", "crashed"} =>
    (ExitStatus = 0 <=> (phase = "done" /\ \A i \in 1..Len(verdicts) : verdicts[i].ok))

(***************************************************************************)
(* Refinement of ScenarioRunner: where the harness is in testGUI() is     *)
(* read as the state of every scenario; a crash aborts the running one    *)
(* and leaves the later ones NotStarted for ever.                         *)
(***************************************************************************)
RState(s) ==
  IF s < sc THEN "Completed"
  ELSE IF s > sc \/ step = 0 THEN "NotStarted"
  ELSE IF phase = "crashed" THEN "Aborted" ELSE "Running"

RDone(s) == IF s < sc THEN Len(Run[s]) ELSE IF s > sc \/ step = 0 THEN 0 ELSE step - 1

Runner == INSTANCE ScenarioRunner WITH
  Scenarios <- Run,
  resets <- IF phase = "init" THEN 0 ELSE 1,
  state <- [s \in DOMAIN Run |-> RState(s)],
  done <- [s \in DOMAIN Run |-> RDone(s)],
  log <- [i \in 1..Len(verdicts) |-> [sc |-> verdicts[i].sc, ok |-> verdicts[i].ok]]

(* The harness keeps the runner's promise: one reset first, scenarios one *)
(* at a time in order, steps in order, one verdict per HTTP or count step *)
(* and never a changed one, Completed only after the last step.           *)
RunnerSafe == Runner!SafeSpec
=============================================================================
