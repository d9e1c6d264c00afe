----------------------------- MODULE ZabbixSeed -----------------------------
(***************************************************************************)
(* The database InitDB() loads (create/mysql/schema.sql and                *)
(* create/data/data.sql, outside this repository), reduced to the tables   *)
(* the scenarios touch and to the rows they can see: the config row, the  *)
(* email media type, the users Admin and guest, one template host and one *)
(* host group.  No seeded row matches a scenario's predicate.             *)
(***************************************************************************)
EXTENDS Naturals, TLC

Tables == {"sessions", "config", "media_type", "autoreg", "users", "media",
           "hosts", "groups", "hosts_templates", "items", "triggers",
           "functions", "sysmaps", "graphs", "screens", "services"}

SRow(id, fs) == [id |-> id, facts |-> fs, st |-> "active", born |-> 0]
Gone(r) == [r EXCEPT !.st = "deleted"]

SeedDB ==
  [t \in Tables |->
     CASE t = "config"     -> {SRow(1, {"alert_history=90"})}
       [] t = "media_type" -> {SRow(1, {"description=Email"})}
       [] t = "users"      -> {SRow(1, {"alias=Admin"}), SRow(2, {"alias=guest"})}
       [] t = "hosts"      -> {SRow(1, {"host=Unix_t"})}
       [] t = "groups"     -> {SRow(1, {"name=Templates"})}
       [] OTHER            -> {}]

(* auto_increment after loading: one past the largest id of each table. *)
NextAfter(d) ==
  [t \in DOMAIN d |->
     1 + (IF d[t] = {} THEN 0
          ELSE CHOOSE m \in {r.id : r \in d[t]} : \A r \in d[t] : r.id <= m)]

SeedNextIds == NextAfter(SeedDB)

DBFacts(d) == UNION {UNION {r.facts : r \in d[t]} : t \in DOMAIN d}

(* How a case-insensitive collation sees the facts that differ only in case. *)
LowerOf == "name=Regression" :> "name=regression"
FoldFacts(fs) == [f \in fs |-> IF f \in DOMAIN LowerOf THEN LowerOf[f] ELSE f]

(* A trigger's functions row is inserted and deleted with the trigger. *)
TriggerFunctions == "triggers" :> "functions"
=============================================================================
