------------------------------- MODULE GreyDb -------------------------------
(***************************************************************************)
(* The records of the spamd database (/var/db/spamd) and what each program *)
(* that opens it writes: the update process and the scanner of spamd       *)
(* (libexec/spamd/grey.c), spamlogd (libexec/spamlogd/spamlogd.c) and the  *)
(* administrator's spamdb (usr.sbin/spamdb/spamdb.c).                      *)
(*                                                                         *)
(* The database file is one hash table.  Its keys are split by what they   *)
(* name: a host (key "ip"), a greylist tuple (key "ip\nhelo\nfrom\nto") or *)
(* a spamtrap address.  A spamtrap entry carries no data that is ever read *)
(* (it never expires), so the spamtraps are a set.                         *)
(***************************************************************************)
EXTENDS Integers

CONSTANTS
  Ip,          (* addresses of the sending hosts                            *)
  Mail,        (* (helo, from, to) triples; Ip \X Mail are the tuple keys   *)
  Bare,        (* mails whose recipient is written without "<" and ">"      *)
  Foreign,     (* mails whose recipient matches no suffix of the            *)
               (* spamd.alloweddomains file                                 *)
  PassTime,    (* passtime: a retry counts only after this long             *)
  GreyExp,     (* greyexp: lifetime of a tuple                              *)
  WhiteExp,    (* whiteexp (-G): lifetime the scanner gives a white host    *)
  WHITEEXP,    (* the compiled-in one, which spamlogd and spamdb use        *)
  TrapExp,     (* trapexp: lifetime of a trapped host                       *)
  Grace,       (* the 60 seconds after startup without low priority traps   *)
  NoEntry      (* what a key without an entry maps to                       *)

(* struct gdata.  pcount is reduced to what any branch of the code tests:  *)
(* -1 (trapped) against 0 (any count >= 0).  bcount is never tested.       *)
Gdata == [first : Nat, pass : Nat, expire : Nat, pcount : {-1, 0}]

ASSUME TimesAssumption ==
  /\ PassTime \in Nat /\ GreyExp \in Nat /\ WhiteExp \in Nat
  /\ WHITEEXP \in Nat /\ TrapExp \in Nat /\ Grace \in Nat
ASSUME MailAssumption == Bare \subseteq Mail /\ Foreign \subseteq Mail
ASSUME NoEntryAssumption == NoEntry \notin Gdata

Entry == Gdata \cup {NoEntry}
Tuple == Ip \X Mail

-----------------------------------------------------------------------------
(* greyupdate: the entries it puts, at clock reading c.                    *)

NewGrey(c) == [first |-> c, pass |-> c + GreyExp, expire |-> c + GreyExp, pcount |-> 0]
NewTrap(c) == [first |-> c, pass |-> c + TrapExp, expire |-> c + TrapExp, pcount |-> -1]

(* Fault variant: a retry in the second in which the wait ends counts.     *)
RetryPassesEarly(e, c) == e.first + PassTime <= c
RetryPasses(e, c) == e.first + PassTime < c

(* An existing entry: pcount is set, pass moves once the wait is over, and *)
(* neither first nor expire is refreshed.                                  *)
Retried(e, c, spamtrap) ==
  [e EXCEPT !.pcount = IF spamtrap THEN -1 ELSE 0,
            !.pass = IF RetryPasses(e, c) THEN c ELSE e.pass]

(* trapcheck.  dequotetolower drops the first character of the recipient   *)
(* whatever it is (its "if" on a leading "<" guards an empty statement), so *)
(* a recipient written without "<" is never found among the spamtraps.     *)
(* The suffix check sees the end of the address only.                      *)
TrapCheck(spamtraps, m) ==
  \/ m \in Foreign
  \/ m \in spamtraps /\ m \notin Bare

(* The low priority MX rule of greyupdate, for a tuple without an entry.   *)
LowPrioTrap(local, low, startup, c) == local /\ low /\ startup + Grace < c

(* twupdate: a TRAP or WHITE update from a synchronisation peer.  Fault    *)
(* variant: a TRAP for a trapped host counts down to -2, the mark of a     *)
(* spamtrap address, which never expires.                                  *)
TwEntryCountsDown(e, trap, c, exp) ==
  IF e = NoEntry
  THEN [first |-> c, pass |-> 0, expire |-> exp, pcount |-> IF trap THEN -1 ELSE 0]
  ELSE [e EXCEPT !.pcount = IF trap THEN e.pcount - 1 ELSE 0]
TwEntry(e, trap, c, exp) ==
  IF e = NoEntry
  THEN [first |-> c, pass |-> 0, expire |-> exp, pcount |-> IF trap THEN -1 ELSE 0]
  ELSE [e EXCEPT !.pcount = IF trap THEN -1 ELSE 0]

(* dbupdate of spamlogd: a connection that pf let pass.                    *)
SeenEntry(e, c) ==
  IF e = NoEntry
  THEN [first |-> c, pass |-> c, expire |-> c + WHITEEXP, pcount |-> 0]
  ELSE [e EXCEPT !.pcount = 0, !.expire = c + WHITEEXP]

(* dbupdate of spamdb -a and spamdb -t -a.                                 *)
SpamdbWhiteEntry(e, c) ==
  [first |-> IF e = NoEntry THEN c ELSE e.first,
   pass |-> c, expire |-> c + WHITEEXP, pcount |-> 0]
SpamdbTrapEntry(e, c) ==
  [first |-> IF e = NoEntry THEN c ELSE e.first,
   pass |-> IF e = NoEntry THEN 0 ELSE e.pass,
   expire |-> c + TrapExp, pcount |-> -1]

-----------------------------------------------------------------------------
(* greyscan: how the walk classifies an entry at clock reading s.  Fault  *)
(* variant: an entry is kept one second longer than it lives.              *)

ExpiredLate(e, s) == e # NoEntry /\ e.expire < s
Expired(e, s) == e # NoEntry /\ e.expire <= s
TrapHit(e, s) == e # NoEntry /\ ~Expired(e, s) /\ e.pcount = -1
Passed(e, s)  == e # NoEntry /\ ~Expired(e, s) /\ e.pcount >= 0 /\ e.pass <= s

(* The entry keyed by ip that the walk queues for a passed tuple.          *)
Promoted(e, s) == [e EXCEPT !.expire = s + WhiteExp]
=============================================================================
