# Model-checking the Zabbix GUI regression harness and the SIGNL4 alert script

This directory holds TLA+ models of the three programs in `src/`. They are
checked with TLC.

| Source | What it is |
|---|---|
| `src/test/regression/gui.py` ("the old harness") | A Python 2 regression test. It drives the Zabbix PHP frontend with HTTP GET requests and checks the MySQL database after each one. |
| `src/ZBX-1229-ipv4_as_ipv6_old_one/test/regression/gui.py` ("the ZBX-1229 harness") | A later copy of the same harness. It has more scenarios, a `header()` per scenario, and a `testGUI()` driver. `testGUI()` is defined but never called in the file; the model assumes something imports the module and calls it. Its checks expect hosts to be deleted softly, by setting `status=4`. |
| `src/zabbix/templates/media/signl4/zabbix-signl4.py` | The alert script the Zabbix server runs for a SIGNL4 media type. It makes one HTTPS POST to a webhook. |

## 1. Inventory

### Parts and how they interact

**Harness (both copies): one Python process, one thread, no exception handling.**

- The module-level `MySQLdb.connect` opens one database connection. Every query reuses it.
- `testGUI()` (ZBX-1229), or the module-level calls (old), run in this order:
  1. `InitDB()` runs five `os.system` calls to drop, create, load the schema, load the data, and fix the rights. Their exit codes are ignored.
  2. Each scenario function runs in a fixed order. Scenarios are never reset in between, so they depend on the state earlier scenarios leave.
- A scenario function is a straight line of calls:
  - `TestGUI(name, page, gets, expect)` sends one GET request. It prints `GUI: NOT OK` unless the answer matches `.*expect.*`. A connection failure raises and ends the process.
  - `TestDBCount(table, cond, num)` runs `SELECT count(*)` and prints `DB: NOT OK` unless the result is exactly `num`.
  - `DBGetID(table, cond, col)` takes `fetchone()[0]` of an unordered SELECT and stores it in a local variable, which later calls use through `str(id)`. It returns any matching row. When no row matches, `None[0]` raises `TypeError` and the run ends.
- The system under test is the Zabbix frontend, its MySQL database, and the Zabbix server's housekeeper, which removes soft-deleted hosts. None of them are in this repository.

**SIGNL4 script: one process, straight line.**

1. argparse reads three positional arguments.
2. `send_alert` POSTs the alert:
   - On status 200, `resp.text.split("\t")` returns a list, and `list.find` raises `AttributeError`.
   - On any other status, it writes the body to stderr and returns 2.
3. The main program ignores that return value, calls `log("... alert sent ...")` (which catches an `OSError` on the log file), and exits 0.

The Zabbix server's alerter runs the script once per attempt and retries after a non-zero exit.

### What makes each part correct (and hard)

The harness is right when both of these hold:

- It reports `NOT OK` only for a frontend that misbehaves.
- It reports every misbehaviour it claims to check.

Both depend on things a unit test hardly reaches:

- the order of scenarios and the rows each one leaves behind;
- ids hard-coded to the seed's auto-increment values;
- `fetchone()` picking among several rows;
- a housekeeper running concurrently with the harness;
- a reset that fails silently;
- lost writes and broken connections.

`spec.md` §4.4 and §7 add a runner contract:

- scenarios run in order;
- steps run in order;
- one verdict per step;
- a transport error or a lookup error aborts only its scenario, and later scenarios still run.

The script is right when its exit status says whether SIGNL4 accepted the alert (`spec.md` §6). Zabbix marks the alert from that status and retries when it is non-zero.

PROJECT.json lists all components, and the hazards each at its source line.

## 2. Modules

| Module | Models | State / actions |
|---|---|---|
| `GuiSteps` | The three call kinds as data. | `GuiStep`, `StatusStep`, `CountStep`, `GetIDStep`. An id is `Lit(n)` (a number in the query) or `Var("x")` (`str(x)` of a captured local). |
| `ZabbixFrontend` | The environment: frontend and database. | `Handle(db, nextId, sc, request)` returns the new database, the new counters, and the phrase the page carries. `Purge` is the housekeeper. Constants fix what the harness cannot know: soft-delete tables, whether deleted rows block a name, collation, unique tables, and dependent rows (a trigger's functions). |
| `ZabbixSeed` | The database `InitDB` loads, reduced to the rows the scenarios can see. | |
| `GuiHarness` | The harness. | Variables: `phase`, `sc`, `step`, `capt` (the captured locals), `db`, `nextId`, `verdicts`, and the history `faults`. Actions: `InitDB`, `Enter` (the header), `TestGUI`, `TestDBCount`, `DBGetID`, `Return` (the scenario function returns and testGUI calls the next), and `Housekeeper`. |
| `GuiScenariosZbx`, `GuiScenariosOld` | Every scenario function, one step per call, and the run order. | The old file's second `GUI_Config_Maps` (graphs) replaces the first (network maps), as Python does. |
| `ScenarioRunner` | The abstract runner of `spec.md` §4.4. | Per-scenario `NotStarted -> Running -> Completed / Aborted`, one reset, `done` steps, and the verdict `log`. `GuiHarness` maps onto it with `Runner == INSTANCE ScenarioRunner WITH ...`. |
| `Signl4` | The script. | Actions: `ParseArgs`, `SendAlert`, `Log`, `Exit`, and `Raise` (an uncaught exception gives exit 1). `delivered` is a ghost variable recording that SIGNL4 accepted the alert. |
| `Signl4Alerter` | The environment: the Zabbix alerter. | Runs one script process per attempt, up to `MaxAttempts`, kills a process hung in `requests.post` (`Kill`, the server's timeout), records each alert `sent` or `failed` from the exit status, and counts the pages SIGNL4 sends. |
| `MC_Old`, `MC_Zbx`, `MC_Signl4` | Instantiations for TLC. | The leftover database of a previous run, and the fact sets. |

How the harness model works:

- `TestGUI` is one atomic step, because the frontend answers one request at a time while the harness waits.
- The environment may inject at most `MaxFaults` faults:
  - `reset`: InitDB fails, so the previous run's database stays;
  - `error`: an error page, and nothing is written;
  - `lost`: a success page, but the write is lost;
  - `transport`: an exception, and the write happened or did not;
  - `hang`: the frontend never answers (httplib has no timeout), and the write happened or did not.
- With `SnapshotReads`, the harness's single connection reads one snapshot. MySQLdb turns autocommit off and the harness never commits, so on InnoDB tables under REPEATABLE READ the first SELECT fixes the snapshot that every later `TestDBCount` and `DBGetID` reads (`View`, `ReadSnap`, variable `snap`). Without it, every query reads the current database.
- Each fault is recorded in `faults`, so the properties can distinguish a false alarm from a detected fault.

### Abstraction

- Query strings and WHERE clauses are reduced to a table, an operation, a set of `column=value` facts, an id, and a status.
- Expected patterns are reduced to the phrase they look for: `done`, `exists`, or `missing`.
- Parent links (`hostid=` in a child's condition) are left out.
- Each row records the scenario that inserted it (`born`), so the properties can say whose row an id names.

## 3. Runs

| Run | Expect | Checks | Shows |
|---|---|---|---|
| `old_sound` | pass | `TypeOK`, `NoFalseAlarm`, `NoSpuriousCrash`, `CapturedIdOwn`, `RunnerSafe` | The old harness runs with one fault of any kind anywhere. It reports `NOT OK` or crashes only after a fault, and every id it captures names a row of the running scenario. The harness refines the runner's safety specification. `RunnerSafe` covers: one reset first, scenarios and steps in order, one verdict per HTTP or count step (the old file's OK/NOT OK line per call) that never changes, a crash as Aborted, and Completed only after the last step. It does not promise that later scenarios ever start; that is `AllScenariosRun`. |
| `old_snapshot` | violation | `NoFalseAlarm` | If the tables are InnoDB, the count after Logging out still sees the session, because the connection's open transaction reads the snapshot of its first SELECT. `spec.md` §5 says no transaction discipline is needed. |
| `zbx_collation` | violation | `NoSpuriousCrash` | Under a case-sensitive collation (utf8_bin), the lookup of group `'regression'` at line 194 finds no row, and `None[0]` ends the run. |
| `zbx_housekeeper` | pass | `NoSpuriousCrash` | The housekeeper may purge between any two calls of the ZBX-1229 harness. No lookup comes up empty because of it: every lookup follows its own scenario's add of an active row. |
| `zbx_false_alarm` | violation | `NoFalseAlarm` | The ZBX-1229 harness reports `NOT OK` against a frontend that behaves as it expects. The soft-deleted host can be purged before its `status=4` check (line 138). Line 180 also counts the host Autoregistration deleted. |
| `zbx_captured_id` | violation | `CapturedIdOwn` | In a fault-free run, `DBGetID` at line 181 may capture the host that Autoregistration soft-deleted. A table scan returns the older, lower id first. `spec.md` §4.3 requires a lookup that matches two rows to fail. Line 227 looks its host up the same way. |
| `zbx_all_run` | violation | `AllScenariosRun` | One transport error ends the whole run. `spec.md` §4.1 and §7 say it aborts only the scenario. |
| `zbx_faults_detected` | violation | `FaultsDetected` | A write the frontend acknowledged but lost must be reported by a `NOT OK` of its own scenario. In the ZBX-1229 harness a lost delete of the SMS media type goes unreported: the count after it (line 118) looks for `description='Zzz2'`, the renamed email type. |
| `old_exit_status` | violation | `ExitStatusReflectsVerdicts` | `spec.md` §7: a finished run exits 0 exactly when it completed with every verdict OK. The old harness prints `NOT OK` for an error page and carries on, then falls off its end with exit 0 (line 187). Only an uncaught exception exits 1. |
| `signl4_report` | pass | `ATypeOK`, `FailureReportOnlyIfUndelivered` | A failure report on stderr always means the alert was not accepted. |
| `signl4_outcome` | violation | `AlertRecordTrue` | What Zabbix records must match what the team saw: an alert marked sent paged the team exactly once, and one given up on paged no one. A rejected alert exits 0, so it is marked sent with no page. An accepted alert exits 1, because of the `AttributeError`, so the alerter retries it and pages the team again. |

Every property of a passing run has a mutant in PROJECT.json: a plausible defect of the mapped code that TLC must catch. The mutants are:

- `DBGetID` returns the whole row;
- a hard-coded id is off by one;
- a lookup runs before the add;
- the locals survive `Return`;
- the scenario returns before its last call;
- a status check re-done as a lookup;
- `send_alert` returns 1;
- the split is fixed but the inverted eventId test is kept.

### Bounds and why they are enough

- **Scenarios:** every scenario function of each file is modelled in full, so no bound applies.
- **Faults:** `MaxFaults = 1` reaches every kind of fault at every call. The questions are about a single fault: is it reported, and does it abort more than it should? With the housekeeper on, the run uses `MaxFaults = 0`, which keeps it under a minute; faults are checked against the refinement on the old harness (`old_sound`), whose actions are the same. The same lost-write and id-only-check defect of the old harness (lines 159 and 171) is listed as a hazard under `FaultsDetected`; TLC reports it the same way when `MC_Old` is checked for that invariant.
- **Leftover database:** the database a failed reset leaves is the end state of one fault-free previous run of the same file.
- **SIGNL4:** two alerts and three attempts (the Zabbix default) are enough for a retry to repeat a delivery.

### Fairness

- **Harness:** weak fairness on `HarnessStep`. The harness is one thread that blocks only on its own calls, so it keeps going while it can. Nothing is assumed of the housekeeper.
- **SIGNL4:** weak fairness on the alerter's next-state relation, because the script has no loop. A POST that never returns ends with the alerter's `Kill`.

## 4. Not modelled, and the plan

- **Losing the database connection.** A dropped MySQL connection raises like a transport error; the harness has no reconnect, so nothing new would be learnt.
- **Liveness of the SIGNL4 alerter.** Every alert ends up sent or failed only because the alerter bounds attempts and kills hung processes. Under weak fairness of the next-state relation, no defect of the script can break this, so it is not stated as a property.
- **Text output.** The `Undefined variable` warning, the header layout, and regex metacharacters in the expected patterns are left out. The report is the sequence of verdicts plus the exit status (`ExitStatus`: 1 after an uncaught exception, otherwise 0).
- **A reset that half works.** `InitDB` is modelled as all five `os.system` calls working, or none of them, which leaves the previous database. A drop that works followed by a failed load (tables missing, so the next query raises) is left out. Every property already excuses a failed reset.
- **Collation.** Every run uses a case-insensitive collation except `zbx_collation`.
- **The system under test.** The frontend and the Zabbix server are modelled only as the environment.
- **A runner that catches errors at the scenario boundary** (`spec.md` §7). No such runner exists in this repository: both harnesses let every exception end the process. `ScenarioRunner` states the promise (`EveryScenarioFinishes`), and `zbx_all_run` shows the code does not keep it. There is nothing further to model until such a runner is written.
