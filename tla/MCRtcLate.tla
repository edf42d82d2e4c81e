------------------------------ MODULE MCRtcLate ------------------------------
(* RtcClock for TLC on a host that may dispatch the alarm's timer after what  *)
(* the guest does in the meantime.                                            *)
EXTENDS RtcClock

\* Minute 1 of every hour on the day 1 of the week.
OneAlarm == {[minute |-> 1, hour |-> Masked, byDay |-> FALSE, day |-> 0, week |-> {1}]}
NoWrites == {}
=============================================================================
