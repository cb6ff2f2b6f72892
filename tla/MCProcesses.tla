---------------------------- MODULE MCProcesses ----------------------------
(* Processes on small instances: pipes of one or two lines, so that they   *)
(* fill up at once.                                                        *)
EXTENDS Processes

CONSTANTS i1, i2

OneIp == {i1}
TwoIps == {i1, i2}
Nobody == {}
Everybody == Process
=============================================================================
