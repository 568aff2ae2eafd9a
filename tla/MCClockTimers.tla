---------------------------- MODULE MCClockTimers ----------------------------
(***************************************************************************)
(* Two tasks, one of them launched while the other runs.  The first may    *)
(* hold more timers than the table admits, so both limits bind; the second *)
(* holds one.                                                              *)
(***************************************************************************)
EXTENDS ClockTimers

CONSTANTS t1, t2

TwoTasks == {t1, t2}
Quotas == [t \in TwoTasks |-> IF t = t1 THEN 3 ELSE 1]
=============================================================================
