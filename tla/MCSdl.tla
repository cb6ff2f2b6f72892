------------------------------- MODULE MCSdl -------------------------------
(* Sdl with three lists of spamd-setup beside the trapped hosts, and an    *)
(* array that grows by three elements.                                     *)
EXTENDS Sdl

CONSTANTS t1, t2, t3, i1, i2, s1
ThreeTags == {t1, t2, t3}
TwoIps == {i1, i2}
OneSlot == {s1}
=============================================================================
