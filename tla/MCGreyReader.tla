---------------------------- MODULE MCGreyReader ----------------------------
(* GreyReader with four messages of every kind, of which the pipe holds at *)
(* most two tuples at a time.                                              *)
EXTENDS GreyReader

=============================================================================
