\* Two alerts, three attempts each, every answer of the webhook, with and
\* without a log file to write.
CONSTANTS
  Alerts <- MCAlerts
  a1 = a1
  a2 = a2
  MaxAttempts = 3
SPECIFICATION ASpec
CHECK_DEADLOCK FALSE
INVARIANT ATypeOK
INVARIANT FailureReportOnlyIfUndelivered
