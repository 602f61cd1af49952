------------------------------ MODULE MCAlarms ------------------------------
\* The alarms for model checking: a clock that wraps after 16 beacon intervals.
EXTENDS Alarms
=============================================================================
