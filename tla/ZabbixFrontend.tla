--------------------------- MODULE ZabbixFrontend ---------------------------
(***************************************************************************)
(* The system under test of the GUI regression harness: the Zabbix PHP     *)
(* frontend and the MySQL database behind it.  Neither is part of this     *)
(* repository.  The harness drives the frontend with one GET request at a  *)
(* time and reads the database directly, so each request is handled here  *)
(* as one atomic step that returns the new database, the new              *)
(* auto-increment counters and the phrase the answer page carries.        *)
(*                                                                         *)
(* The behaviour is the one the harness's own expectations assume ("Host   *)
(* added", "already exists", a count of 0 or 1 afterwards).  What the      *)
(* harness cannot know is left to CONSTANTS: which tables delete softly    *)
(* (status=4), whether a soft-deleted row still blocks its name, and       *)
(* whether the database compares strings case-insensitively.              *)
(*                                                                         *)
(* A row keeps its id, the set of column=value facts the scenarios test    *)
(* (the other columns are left out), its status, and, as a history field,  *)
(* the scenario during which it was inserted.                             *)
(***************************************************************************)
EXTENDS Naturals

CONSTANTS
  Facts,                  \* column=value facts a row can carry
  FoldCase,               \* [Facts -> Facts]: the lower-case form of a fact
  CaseInsensitive,        \* the collation compares strings case-insensitively
  UniqueTables,           \* "add" answers "already exists" for a known name
  SoftDeleteTables,       \* "delete" only sets status=4 (HOST_STATUS_DELETED)
  DeletedRowsBlockNames,  \* a status=4 row still counts as an existing name
  Dependent               \* [parent table -> child table]: a child row is
                          \* inserted and deleted with its parent (trigger
                          \* -> functions), and carries the parent's id

AnyStatus == "any"   \* the wildcard status of a predicate
Status == {"active", "disabled", "deleted"}
Row == [id: Nat \ {0}, facts: SUBSET Facts, st: Status, born: Nat]

(* The phrases an answer page can carry, as the harness's patterns see them. *)
Outcomes == {"done", "exists", "missing"}

(***************************************************************************)
(* Reading: a WHERE clause is a conjunction of column=value facts, an      *)
(* optional id (0: none) and an optional status.                           *)
(***************************************************************************)
SameFact(f, g) == f = g \/ (CaseInsensitive /\ FoldCase[f] = FoldCase[g])

HasFacts(r, fs) == \A f \in fs : \E g \in r.facts : SameFact(f, g)

Matches(r, fs, id, st) ==
  /\ HasFacts(r, fs)
  /\ id = 0 \/ r.id = id
  /\ st = AnyStatus \/ r.st = st

Select(db, t, fs, id, st) == {r \in db[t] : Matches(r, fs, id, st)}

(***************************************************************************)
(* Writing.                                                                *)
(***************************************************************************)
Result(db, nid, out) == [db |-> db, nid |-> nid, out |-> out]

Children(t) == IF t \in DOMAIN Dependent THEN {Dependent[t]} ELSE {}

Insert(db, nid, t, fs, sc) ==
  LET new == [id |-> nid[t], facts |-> fs, st |-> "active", born |-> sc]
      kid == [new EXCEPT !.facts = {}]
  IN  Result([u \in DOMAIN db |->
                IF u = t THEN db[u] \cup {new}
                ELSE IF u \in Children(t) THEN db[u] \cup {kid}
                ELSE db[u]],
             [nid EXCEPT ![t] = @ + 1], "done")

Blocks(r) == r.st # "deleted" \/ DeletedRowsBlockNames

Add(db, nid, t, fs, sc) ==
  IF t \in UniqueTables /\ \E r \in db[t] : Blocks(r) /\ HasFacts(r, fs)
  THEN Result(db, nid, "exists")
  ELSE Insert(db, nid, t, fs, sc)

(* Apply Change to the row of table t with the given id. *)
Modify(db, nid, t, id, Change(_)) ==
  IF Select(db, t, {}, id, AnyStatus) = {}
  THEN Result(db, nid, "missing")
  ELSE Result([db EXCEPT ![t] = {IF r.id = id THEN Change(r) ELSE r : r \in @}],
              nid, "done")

Delete(db, nid, t, id) ==
  IF t \in SoftDeleteTables
  THEN Modify(db, nid, t, id, LAMBDA r : [r EXCEPT !.st = "deleted"])
  ELSE IF Select(db, t, {}, id, AnyStatus) = {}
  THEN Result(db, nid, "missing")
  ELSE Result([u \in DOMAIN db |->
                 IF u = t \/ u \in Children(t)
                 THEN {r \in db[u] : r.id # id} ELSE db[u]],
              nid, "done")

(***************************************************************************)
(* One request: q = [op, tbl, facts, id, st].                              *)
(***************************************************************************)
Handle(db, nid, sc, q) ==
  CASE q.op = "add"    -> Add(db, nid, q.tbl, q.facts, sc)
    [] q.op = "update" -> Modify(db, nid, q.tbl, q.id,
                                 LAMBDA r : [r EXCEPT !.facts = q.facts])
    [] q.op = "status" -> Modify(db, nid, q.tbl, q.id,
                                 LAMBDA r : [r EXCEPT !.st = q.st])
    [] q.op = "delete" -> Delete(db, nid, q.tbl, q.id)
    [] q.op = "login"  -> Insert(db, nid, "sessions", {}, sc)
    [] q.op = "logout" -> Result([db EXCEPT !["sessions"] = {}], nid, "done")
    [] q.op = "show"   -> Result(db, nid, "done")

(***************************************************************************)
(* The Zabbix server's housekeeper, running beside the frontend, removes   *)
(* the rows a soft delete left behind.                                     *)
(***************************************************************************)
Purge(db) ==
  [t \in DOMAIN db |->
     IF t \in SoftDeleteTables THEN {r \in db[t] : r.st # "deleted"} ELSE db[t]]
=============================================================================
