----------------------------- MODULE MCCollapse -----------------------------
(* Collapse on addresses of three bits: every range, and one that is back  *)
(* to front.                                                               *)
EXTENDS Collapse

Ranges == {l \in (0 .. 7) \X (0 .. 7) : l[1] <= l[2]}
AllRanges == Ranges \cup {<<5, 2>>}
=============================================================================
