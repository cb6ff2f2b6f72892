------------------------------ MODULE Passage ------------------------------
(***************************************************************************)
(* What greylisting (Greylist) promises about a host's way past spamd,     *)
(* without times, tuples and locks.  A host has to earn its passage before *)
(* a scan makes it white; a scan that does so also hands it to pf; and pf  *)
(* is only ever given the list of the last complete scan, once.            *)
(***************************************************************************)
CONSTANT Ip

Standing == {"unknown", "white", "trapped"}

VARIABLES
  standing,  \* what the database says of the host
  earned,    \* the hosts with a reason to be let through
  pending,   \* the list for pf that has been made but not tried, if any
  pf,        \* the hosts that pf lets past spamd
  misread    \* the hosts that the last scan failed to look up

vars == <<standing, earned, pending, pf, misread>>

Init ==
  /\ standing = [ip \in Ip |-> "unknown"]
  /\ earned = {}
  /\ pending = {}
  /\ pf = {}
  /\ misread = {}

(* A retry in its window is a reason; the host is not white yet.           *)
Earn(ip) ==
  /\ earned' = earned \cup {ip}
  /\ UNCHANGED <<standing, pending, pf, misread>>

Vouch(ip) ==
  /\ standing' = [standing EXCEPT ![ip] = "white"]
  /\ earned' = earned \cup {ip}
  /\ UNCHANGED <<pending, pf, misread>>

Trap(ip) ==
  /\ standing' = [standing EXCEPT ![ip] = "trapped"]
  /\ UNCHANGED <<earned, pending, pf, misread>>

Delete(ip) ==
  /\ standing' = [standing EXCEPT ![ip] = "unknown"]
  /\ UNCHANGED <<earned, pending, pf, misread>>

(* A scan forgets hosts and makes some white that earned it.  It puts no   *)
(* white host in the place of a trapped one, or of any other, unless it    *)
(* failed to look the host up.                                             *)
Review(forgotten, promoted) ==
  /\ misread' \in SUBSET Ip
  /\ promoted \subseteq earned
  /\ \A ip \in promoted : standing[ip] = "unknown" \/ ip \in misread'
  /\ standing' = [ip \in Ip |-> IF ip \in promoted THEN "white"
                                ELSE IF ip \in forgotten THEN "unknown"
                                ELSE standing[ip]]
  /\ UNCHANGED <<earned, pf>>

(* Those it promotes are on the list, but for a failed lookup; the others  *)
(* on it have a reason too; that they are not trapped is not promised.     *)
Scan(forgotten, promoted) ==
  /\ pending = {}
  /\ Review(forgotten, promoted)
  /\ \E list \in SUBSET earned : promoted \ misread' \subseteq list /\ pending' = {list}

ScanFails(forgotten, promoted) ==
  /\ Review(forgotten, promoted)
  /\ UNCHANGED pending

(* The list replaces the table, or is given up.                            *)
Load ==
  /\ \E list \in pending : pf' = list
  /\ pending' = {}
  /\ UNCHANGED <<standing, earned, misread>>
GiveUp ==
  /\ pending' = {}
  /\ UNCHANGED <<standing, earned, pf, misread>>

Next ==
  \/ \E ip \in Ip : Earn(ip) \/ Vouch(ip) \/ Trap(ip) \/ Delete(ip)
  \/ \E forgotten, promoted \in SUBSET Ip :
       Scan(forgotten, promoted) \/ ScanFails(forgotten, promoted)
  \/ Load \/ GiveUp

Spec == Init /\ [][Next]_vars
=============================================================================
