----------------------------- MODULE TupleFeed -----------------------------
(***************************************************************************)
(* What the line protocol on greypipe (GreyReader) promises to the         *)
(* database: the jail's messages become calls of greyupdate and twupdate,  *)
(* one by one and in order, each with its own fields.  Two things are less *)
(* than one would wish: a tuple without a HELO is dropped, and a tuple     *)
(* whose own target address is not known goes with that of the last        *)
(* message that had one.                                                   *)
(***************************************************************************)
EXTENDS Naturals, Sequences, FiniteSetsExt

Target == {"low", "high", ""}
Message == [kind : {"tuple"}, co : Target, helo : BOOLEAN]
             \cup [kind : {"sync", "tw"}, co : {""}, helo : {TRUE}]

VARIABLES
  log,     \* the messages, in the order of writing
  taken,   \* how many of them have been taken
  calls    \* what was called: fields from which messages, sync, cip

vars == <<log, taken, calls>>

Init == log = <<>> /\ taken = 0 /\ calls = <<>>

Put(m) ==
  /\ log' = Append(log, m)
  /\ UNCHANGED <<taken, calls>>

(* Without a message that had a target, cip is some other string.          *)
LastTarget(n) ==
  LET with == {i \in 1 .. n : log[i].co # ""}
  IN IF with = {} THEN Target \ {"low"} ELSE {log[Max(with)].co}

Call(n) ==
  IF log[n].kind = "tw" THEN {[of |-> {n}]}
  ELSE {[of |-> {n}, sync |-> log[n].kind = "tuple", cip |-> c] : c \in LastTarget(n)}

Take ==
  /\ taken < Len(log)
  /\ taken' = taken + 1
  /\ IF log[taken'].helo
     THEN \E c \in Call(taken') : calls' = Append(calls, c)
     ELSE UNCHANGED calls
  /\ UNCHANGED log

Next == Take \/ \E m \in Message : Put(m)

Spec == Init /\ [][Next]_vars
=============================================================================
