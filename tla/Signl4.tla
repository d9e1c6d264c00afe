------------------------------- MODULE Signl4 -------------------------------
(***************************************************************************)
(* templates/media/signl4/zabbix-signl4.py: the alert script Zabbix runs  *)
(* for a SIGNL4 media type.  One process, straight-line: parse the three  *)
(* arguments, POST the alert to the webhook, log, exit.  What the         *)
(* webhook answers, whether the log file can be opened, and whether the   *)
(* arguments are there are the environment's choice.  Text is abstracted *)
(* to what it says: stdout, stderr and the log file hold message tags.   *)
(* The ghost variable delivered records whether SIGNL4 accepted the      *)
(* alert (its answer carries an eventId).                                 *)
(***************************************************************************)
EXTENDS Integers

VARIABLES
  pc,         \* "parse", "send", "hung", "log", "exit" or "exited"
  ret,        \* what send_alert returned (none: it did not return)
  stdout, stderr, logfile,
  exitCode,   \* the process exit status once pc = "exited"
  delivered   \* ghost: the webhook's answer carried an eventId

svars == <<pc, ret, stdout, stderr, logfile, exitCode, delivered>>

NoValue == -1

(* requests.post either raises (no connection) or returns an answer; only *)
(* an accepting answer, status 200, carries an eventId.                   *)
Answers == {[status |-> 0, eventId |-> FALSE]} \cup
           [status: {200}, eventId: BOOLEAN] \cup
           [status: {400, 500}, eventId: {FALSE}]

TypeOK ==
  /\ pc \in {"parse", "send", "hung", "log", "exit", "exited"}
  /\ ret \in {NoValue, 0, 2}
  /\ stdout \subseteq {"body", "sent", "logerror"}
  /\ stderr \subseteq {"usage", "body", "traceback"}
  /\ logfile \subseteq {"sent"}
  /\ exitCode \in {NoValue, 0, 1, 2}
  /\ delivered \in BOOLEAN

(* A fresh process: the log file is the one earlier runs appended to;  *)
(* enable_log = True (line 18), so Log always writes it.               *)
Start ==
  /\ pc' = "parse" /\ ret' = NoValue
  /\ stdout' = {} /\ stderr' = {}
  /\ exitCode' = NoValue /\ delivered' = FALSE

Init ==
  /\ pc = "parse" /\ ret = NoValue
  /\ stdout = {} /\ stderr = {} /\ logfile = {}
  /\ exitCode = NoValue /\ delivered = FALSE

(* An uncaught exception: Python prints the traceback and exits 1. *)
Raise ==
  /\ stderr' = stderr \cup {"traceback"}
  /\ exitCode' = 1 /\ pc' = "exited"

(* argparse: a missing positional argument prints the usage and exits 2. *)
ParseArgs ==
  /\ pc = "parse"
  /\ \/ pc' = "send" /\ UNCHANGED <<stderr, exitCode>>
     \/ stderr' = stderr \cup {"usage"} /\ exitCode' = 2 /\ pc' = "exited"
  /\ UNCHANGED <<ret, stdout, logfile, delivered>>

(* Defect variant: a failed POST returns 1 instead of 2. *)
SendAlertReturn1 ==
  /\ pc = "send"
  /\ \E a \in Answers :
       /\ delivered' = a.eventId
       /\ \/ a.status = 0 /\ Raise /\ UNCHANGED ret
          \/ a.status = 200 /\ Raise /\ UNCHANGED ret
          \/ /\ a.status \notin {0, 200}
             /\ stderr' = stderr \cup {"body"} /\ ret' = 1
             /\ pc' = "log" /\ UNCHANGED exitCode
  /\ UNCHANGED <<stdout, logfile>>

(* Defect variant: the split is fixed (str.find works) but the eventId   *)
(* test keeps its == -1: an answer without eventId goes to stdout, one   *)
(* with it to stderr.                                                     *)
SendAlertSplitFixed ==
  /\ pc = "send"
  /\ \E a \in Answers :
       /\ delivered' = a.eventId
       /\ \/ a.status = 0 /\ Raise /\ UNCHANGED <<ret, stdout>>
          \/ /\ a.status = 200 /\ ~a.eventId
             /\ stdout' = stdout \cup {"body"} /\ ret' = 0
             /\ pc' = "log" /\ UNCHANGED <<stderr, exitCode>>
          \/ /\ a.status # 0 /\ (a.status = 200 => a.eventId)
             /\ stderr' = stderr \cup {"body"} /\ ret' = 2
             /\ pc' = "log" /\ UNCHANGED <<stdout, exitCode>>
  /\ UNCHANGED logfile

(***************************************************************************)
(* send_alert(): on status 200, resp.text.split("\t") is a list and        *)
(* list.find raises AttributeError before the eventId test; any other     *)
(* status writes the body to stderr and returns 2.  requests.post has no  *)
(* timeout: an answer that never comes leaves the process waiting, and    *)
(* the request may or may not have reached SIGNL4.                        *)
(***************************************************************************)
SendAlert ==
  /\ pc = "send"
  /\ \/ \E a \in Answers :
          /\ delivered' = a.eventId
          /\ \/ a.status = 0 /\ Raise /\ UNCHANGED ret
             \/ a.status = 200 /\ Raise /\ UNCHANGED ret
             \/ /\ a.status \notin {0, 200}
                /\ stderr' = stderr \cup {"body"} /\ ret' = 2
                /\ pc' = "log" /\ UNCHANGED exitCode
     \/ /\ delivered' \in BOOLEAN /\ pc' = "hung"
        /\ UNCHANGED <<ret, stderr, exitCode>>
  /\ UNCHANGED <<stdout, logfile>>

(* The main program ignores what send_alert returned and logs success;   *)
(* log() catches an OSError from opening or writing the file.            *)
Log ==
  /\ pc = "log"
  /\ \/ logfile' = logfile \cup {"sent"} /\ stdout' = stdout \cup {"sent"}
     \/ UNCHANGED logfile /\ stdout' = stdout \cup {"sent", "logerror"}
  /\ pc' = "exit"
  /\ UNCHANGED <<ret, stderr, exitCode, delivered>>

Exit ==
  /\ pc = "exit"
  /\ exitCode' = 0 /\ pc' = "exited"
  /\ UNCHANGED <<ret, stdout, stderr, logfile, delivered>>

Next == ParseArgs \/ SendAlert \/ Log \/ Exit

(* One process with no loop: it runs to its end unless the POST hangs.   *)
Spec == Init /\ [][Next]_svars /\ WF_svars(Next)

(***************************************************************************)
(* Properties.                                                             *)
(***************************************************************************)

(* send_alert reports a failure on stderr (the webhook's body) only for  *)
(* an alert SIGNL4 did not accept.                                        *)
FailureReportOnlyIfUndelivered == "body" \in stderr => ~delivered
=============================================================================
