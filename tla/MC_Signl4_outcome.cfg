\* Does Zabbix record an alert as sent exactly when SIGNL4 paged the team once?
CONSTANTS
  Alerts <- MCAlerts
  a1 = a1
  a2 = a2
  MaxAttempts = 3
SPECIFICATION ASpec
CHECK_DEADLOCK FALSE
INVARIANT AlertRecordTrue
