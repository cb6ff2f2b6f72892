---------------------------- MODULE MCSelectLoop ----------------------------
(* SelectLoop for two clients beside a configuration connection, with four *)
(* descriptors, two to the word.                                           *)
EXTENDS SelectLoop

Pipes1 == {"trapfd"}
=============================================================================
