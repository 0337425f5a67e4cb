----------------------------- MODULE MCDailyLog ------------------------------
(* DailyLog for TLC: two threads, one of which logs twice.                   *)
EXTENDS DailyLog

CONSTANTS t1, t2

MCThread == {t1, t2}
MCMaxMsgs == [t \in MCThread |-> IF t = t1 THEN 2 ELSE 1]
=============================================================================
