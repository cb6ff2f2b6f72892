----------------------------- MODULE MCGreylist -----------------------------
(* Greylist on small instances.  The times are scaled down in proportion:  *)
(* the wait is shorter than a tuple's life, and that is shorter than the   *)
(* life of a white or a trapped host.                                      *)
EXTENDS Greylist

CONSTANTS i1, m1

OneIp == {i1}
OneMail == {m1}
None == {}
Lives == {0, 2}
=============================================================================
