---------------------------- MODULE Signl4Alerter ----------------------------
(***************************************************************************)
(* The Zabbix server's alerter (not part of this repository) running the  *)
(* SIGNL4 script: one process per attempt, one attempt at a time; an     *)
(* exit status of 0 marks the alert sent, any other (or a kill after the *)
(* timeout) is a failed attempt,                                          *)
(* retried until the media type's MaxAttempts are used up.                *)
(***************************************************************************)
EXTENDS Signl4

CONSTANTS Alerts, MaxAttempts

VARIABLES
  attempts,  \* alert -> attempts made
  outcome,   \* alert -> "pending", "sent" or "failed"
  cur,       \* the alert the running process is for, or NoAlert
  pages      \* alert -> alerts SIGNL4 accepted for it (team notifications)

NoAlert == "none"
avars == <<svars, attempts, outcome, cur, pages>>

ATypeOK ==
  /\ TypeOK
  /\ attempts \in [Alerts -> 0..MaxAttempts]
  /\ outcome \in [Alerts -> {"pending", "sent", "failed"}]
  /\ cur \in Alerts \cup {NoAlert}
  /\ pages \in [Alerts -> 0..MaxAttempts]

AInit ==
  /\ pc = "exited" /\ ret = NoValue /\ exitCode = 0
  /\ stdout = {} /\ stderr = {} /\ logfile = {} /\ delivered = FALSE
  /\ attempts = [a \in Alerts |-> 0]
  /\ outcome = [a \in Alerts |-> "pending"]
  /\ cur = NoAlert
  /\ pages = [a \in Alerts |-> 0]

Launch ==
  /\ cur = NoAlert
  /\ \E a \in Alerts :
       /\ outcome[a] = "pending" /\ attempts[a] < MaxAttempts
       /\ cur' = a /\ attempts' = [attempts EXCEPT ![a] = @ + 1]
  /\ Start
  /\ UNCHANGED <<logfile, outcome, pages>>

(* One step of the running script; an accepted alert pages the team. *)
Run ==
  /\ cur # NoAlert /\ pc # "exited"
  /\ Next
  /\ pages' = IF delivered' /\ ~delivered
              THEN [pages EXCEPT ![cur] = @ + 1] ELSE pages
  /\ UNCHANGED <<attempts, outcome, cur>>

(* The alerter kills a script still running after its timeout (the       *)
(* server's Timeout setting); a killed attempt has failed.                *)
Kill ==
  /\ cur # NoAlert /\ pc = "hung"
  /\ exitCode' = 1 /\ pc' = "exited"
  /\ UNCHANGED <<ret, stdout, stderr, logfile, delivered, attempts, outcome, cur, pages>>

Reap ==
  /\ cur # NoAlert /\ pc = "exited"
  /\ outcome' = [outcome EXCEPT ![cur] =
                   IF exitCode = 0 THEN "sent"
                   ELSE IF attempts[cur] = MaxAttempts THEN "failed"
                   ELSE "pending"]
  /\ cur' = NoAlert
  /\ UNCHANGED <<svars, attempts, pages>>

ANext == Launch \/ Run \/ Kill \/ Reap

ASpec == AInit /\ [][ANext]_avars /\ WF_avars(ANext)

(* What Zabbix records for an alert is what happened to the team: an     *)
(* alert the alerter marked sent paged the team exactly once, and one it  *)
(* gave up on paged no one.  spec.md 6: the script's exit status says     *)
(* whether SIGNL4 accepted the alert, and the alerter retries only the    *)
(* attempts that failed.                                                  *)
AlertRecordTrue ==
  \A a \in Alerts :
    outcome[a] # "pending" => pages[a] = (IF outcome[a] = "sent" THEN 1 ELSE 0)
=============================================================================
