------------------------------ MODULE MC_Signl4 ------------------------------
EXTENDS Signl4Alerter
CONSTANTS a1, a2
MCAlerts == {a1, a2}
=============================================================================
