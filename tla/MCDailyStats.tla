---------------------------- MODULE MCDailyStats ----------------------------
(* Small instances of DailyStats for TLC.                                   *)
EXTENDS DailyStats, TLC

CONSTANTS t1, t2

\* One library has a day of activity and everybody who writes its rows; the other
\* one is there for its turn in the scheduled pull.
MCOpen  == {<<t1, 1>>}
MCSent  == {<<t1, 1>>, <<t1, 2>>}
\* The first day alone, and all days.
MCAsked == {<<t1, 1, 1>>, <<t1, 1, LastDay>>}
=============================================================================
