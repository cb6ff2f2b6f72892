------------------------------ MODULE Greylist ------------------------------
(***************************************************************************)
(* Greylisting on one host: the update process (greyreader, twupdate,      *)
(* greyupdate), the scanner (greyscan, configure_pf, configure_spamd),     *)
(* spamlogd and the administrator's spamdb share the database.  The        *)
(* scanner turns it into the pf table <spamd-white> and into a line for the *)
(* jailed process, whose way from there is module Processes.                *)
(*                                                                         *)
(* Every program opens the database with O_EXLOCK, updates it and closes   *)
(* it, so an update is one step; but the daemons read the clock BEFORE     *)
(* they wait for the lock, which is a step of its own (ReadClock).         *)
(***************************************************************************)
EXTENDS GreyDb, FiniteSets

CONSTANTS
  PeerLife,    (* how far ahead of our clock a peer's expiry may lie        *)
  MaxTime,     (* bound on the clock                                        *)
  MaxWaiting,  (* bound on how many of the two writers wait at once         *)
  MaxFaults,   (* bound on restarts of spamd, and scans in which the        *)
               (* database returns an error                                 *)
  NotRead      (* the clock reading of a process that is not updating       *)

ASSUME PeerAssumption == PeerLife \subseteq Nat
ASSUME BoundsAssumption ==
  {MaxTime, MaxWaiting, MaxFaults} \subseteq Nat
ASSUME NotReadAssumption == NotRead \notin Nat

VARIABLES
  now,        \* the wall clock
  clock,      \* what each daemon last read from it
  hosts,      \* database entries keyed by ip
  tuples,     \* database entries keyed by ip, helo, from, to
  spamtraps,  \* mails to an address that is a spamtrap entry
  startup,    \* when spamd started (global of grey.c)
  phase,      \* where greyscan is: "scan", "pf" or "spamd"
  whitelist,  \* the address lists greyscan builds
  traplist,
  pf,         \* the kernel's table <spamd-white>
  earned,     \* history: hosts with a reason to be let through
  misread,    \* history: hosts that the last scan failed to look up
  faults      \* how many restarts and erroneous scans there were

db == <<hosts, tuples, spamtraps>>
scan == <<phase, whitelist, traplist>>
vars == <<now, clock, db, startup, scan, pf, earned, misread, faults>>

Writer == {"reader", "spamlogd"}
Daemon == Writer \cup {"scanner"}
Clock == 0 .. MaxTime

TypeOK ==
  /\ now \in Clock
  /\ clock \in [Daemon -> Clock \cup {NotRead}]
  /\ hosts \in [Ip -> Entry]
  /\ tuples \in [Tuple -> Entry]
  /\ spamtraps \subseteq Mail
  /\ startup \in Clock
  /\ phase \in {"scan", "pf", "spamd"}
  /\ whitelist \subseteq Ip /\ traplist \subseteq Ip
  /\ pf \subseteq Ip
  /\ earned \subseteq Ip /\ misread \subseteq Ip
  /\ faults \in 0 .. MaxFaults

Init ==
  /\ now = 0
  /\ clock = [d \in Daemon |-> NotRead]
  /\ hosts = [ip \in Ip |-> NoEntry]
  /\ tuples = [t \in Tuple |-> NoEntry]
  /\ spamtraps = {}
  /\ startup = 0
  /\ phase = "scan"
  /\ whitelist = {} /\ traplist = {}
  /\ pf = {}
  /\ earned = {} /\ misread = {}
  /\ faults = 0

-----------------------------------------------------------------------------
(* Time passes.  A daemon reads it, then waits for the database lock.      *)

Tick ==
  /\ now < MaxTime
  /\ now' = now + 1
  /\ UNCHANGED <<clock, db, startup, scan, pf, earned, misread, faults>>

ReadClock(d) ==
  /\ clock[d] = NotRead
  /\ d \in Writer => Cardinality({w \in Writer : clock[w] # NotRead}) < MaxWaiting
  /\ d = "scanner" => phase = "scan"
  /\ clock' = [clock EXCEPT ![d] = now]
  /\ UNCHANGED <<now, db, startup, scan, pf, earned, misread, faults>>

Holds(d) == clock[d] # NotRead
Done(d) == clock' = [clock EXCEPT ![d] = NotRead]

-----------------------------------------------------------------------------
(* greyupdate, for the tuple (ip, m).  local says that our own jail sent   *)
(* it (no SYNC line), low that the connection was to the low priority MX.  *)

(* History: a retry earns the host its passage in the window that starts   *)
(* PassTime after the tuple was entered and ends when the tuple expires.   *)
EarnedBy(ip, e, c) ==
  earned \cup (IF RetryPasses(e, c) /\ c < e.expire THEN {ip} ELSE {})

GreyTrap(ip, m, c) ==
  /\ TrapCheck(spamtraps, m)
  /\ hosts' = [hosts EXCEPT ![ip] =
                 IF hosts[ip] = NoEntry THEN NewTrap(c)
                 ELSE Retried(hosts[ip], c, TRUE)]
  /\ UNCHANGED <<tuples, earned>>

GreyNew(ip, m, c, local, low) ==
  /\ ~TrapCheck(spamtraps, m)
  /\ tuples[<<ip, m>>] = NoEntry
  /\ IF LowPrioTrap(local, low, startup, c)
     THEN /\ hosts' = [hosts EXCEPT ![ip] = NewTrap(c)]
          /\ UNCHANGED tuples
     ELSE /\ tuples' = [tuples EXCEPT ![<<ip, m>>] = NewGrey(c)]
          /\ UNCHANGED hosts
  /\ UNCHANGED earned

GreyRetry(ip, m, c) ==
  /\ ~TrapCheck(spamtraps, m)
  /\ tuples[<<ip, m>>] # NoEntry
  /\ tuples' = [tuples EXCEPT ![<<ip, m>>] = Retried(tuples[<<ip, m>>], c, FALSE)]
  /\ earned' = EarnedBy(ip, tuples[<<ip, m>>], c)
  /\ UNCHANGED hosts

GreyUpdate(ip, m, local, low) ==
  /\ Holds("reader")
  /\ \/ GreyTrap(ip, m, clock["reader"])
     \/ GreyNew(ip, m, clock["reader"], local, low)
     \/ GreyRetry(ip, m, clock["reader"])
  /\ Done("reader")
  /\ UNCHANGED <<now, spamtraps, startup, scan, pf, misread, faults>>

(* twupdate: a TRAP or WHITE line from a peer, whose expiry is ahead.      *)
TwUpdate(ip, trap, life) ==
  /\ Holds("reader")
  /\ hosts' = [hosts EXCEPT ![ip] =
                 TwEntry(hosts[ip], trap, clock["reader"], clock["reader"] + life)]
  /\ earned' = IF trap THEN earned ELSE earned \cup {ip}
  /\ Done("reader")
  /\ UNCHANGED <<now, tuples, spamtraps, startup, scan, pf, misread, faults>>

(* dbupdate of spamlogd: pf logged a connection with ip that it passed.    *)
SpamlogdUpdate(ip) ==
  /\ Holds("spamlogd")
  /\ hosts' = [hosts EXCEPT ![ip] = SeenEntry(hosts[ip], clock["spamlogd"])]
  /\ earned' = earned \cup {ip}
  /\ Done("spamlogd")
  /\ UNCHANGED <<now, tuples, spamtraps, startup, scan, pf, misread, faults>>

(* dbopen, get or put fails, and the update is lost: nobody tries again.   *)
UpdateFails(d) ==
  /\ d \in Writer /\ Holds(d)
  /\ Done(d)
  /\ UNCHANGED <<now, db, startup, scan, pf, earned, misread, faults>>

-----------------------------------------------------------------------------
(* spamdb, which reads the clock with the lock held: -a ip, -t -a ip,      *)
(* -d ip, -T -a address and -d address.                                    *)

SpamdbWhite(ip) ==
  /\ hosts' = [hosts EXCEPT ![ip] = SpamdbWhiteEntry(hosts[ip], now)]
  /\ earned' = earned \cup {ip}
  /\ UNCHANGED <<now, clock, tuples, spamtraps, startup, scan, pf, misread, faults>>

SpamdbTrap(ip) ==
  /\ hosts' = [hosts EXCEPT ![ip] = SpamdbTrapEntry(hosts[ip], now)]
  /\ UNCHANGED <<now, clock, tuples, spamtraps, startup, scan, pf, earned, misread, faults>>

SpamdbDelete(ip) ==
  /\ hosts[ip] # NoEntry
  /\ hosts' = [hosts EXCEPT ![ip] = NoEntry]
  /\ UNCHANGED <<now, clock, tuples, spamtraps, startup, scan, pf, earned, misread, faults>>

SpamdbSpamtrap(m) ==
  /\ spamtraps' \in {spamtraps \cup {m}, spamtraps \ {m}}
  /\ UNCHANGED <<now, clock, hosts, tuples, startup, scan, pf, earned, misread, faults>>

-----------------------------------------------------------------------------
(* greyscan.  seen are the keys the walk reached: a walk that db->seq ends *)
(* with an error ends as if it were complete, one that jumps to "bad" does *)
(* not.  lost are those whose address found no memory in addwhiteaddr or   *)
(* addtrapaddr, which greyscan answers by deleting them.  unread are the   *)
(* passed tuples whose host db_notin failed to look up, and stuck the keys *)
(* of which do_changes failed to write a change.                           *)

Key == Ip \cup Tuple
PassedIn(seen, s) == {t \in Tuple \cap seen : Passed(tuples[t], s)}
ListedIn(seen, s) ==
  PassedIn(seen, s) \cup {ip \in Ip \cap seen : Passed(hosts[ip], s) \/ TrapHit(hosts[ip], s)}

(* db_notin looks before do_changes has deleted anything.  For a failed    *)
(* lookup it returns -1, which greyscan takes for "not in the database",   *)
(* and where the address found no memory, it looks for the tuple instead.  *)
(* Fault variants: the walk does not look; or it always looks for the      *)
(* address.                                                                *)
PromotesAnyway(ip, m, seen, lost, unread, s) ==
  <<ip, m>> \in PassedIn(seen, s) \ lost
PromotesUnlisted(ip, m, seen, lost, unread, s) ==
  /\ <<ip, m>> \in PassedIn(seen, s)
  /\ <<ip, m>> \in unread \/ hosts[ip] = NoEntry
Promotes(ip, m, seen, lost, unread, s) ==
  /\ <<ip, m>> \in PassedIn(seen, s)
  /\ <<ip, m>> \in unread \/ (<<ip, m>> \notin lost /\ hosts[ip] = NoEntry)

Deleted(key, e, seen, lost, s) == key \in lost \/ (key \in seen /\ Expired(e, s))

(* What is queued for a host's own key.                                    *)
Queued(ip, seen, lost, unread, s) ==
  {Promoted(tuples[<<ip, m>>], s) : m \in {x \in Mail : Promotes(ip, x, seen, lost, unread, s)}}
    \cup (IF Deleted(ip, hosts[ip], seen, lost, s) THEN {NoEntry} ELSE {})

(* The queue is last in, first out: of a key's changes the one that the    *)
(* walk came to first stays, and a hash table walks in any order.          *)
Remains(ip, seen, lost, unread, stuck, s) ==
  LET queued == Queued(ip, seen, lost, unread, s)
  IN queued \cup (IF queued = {} \/ ip \in stuck THEN {hosts[ip]} ELSE {})

DoChanges(seen, lost, unread, stuck, s) ==
  /\ \E entries \in [Ip -> UNION {Remains(ip, seen, lost, unread, stuck, s) : ip \in Ip}] :
       /\ \A ip \in Ip : entries[ip] \in Remains(ip, seen, lost, unread, stuck, s)
       /\ hosts' = entries
  /\ tuples' = [t \in Tuple |->
       IF Deleted(t, tuples[t], seen, lost, s) /\ t \notin stuck THEN NoEntry ELSE tuples[t]]

WhiteAddrs(seen, lost, s) ==
  {ip \in Ip : \/ ip \in seen \ lost /\ Passed(hosts[ip], s)
               \/ \E m \in Mail : <<ip, m>> \in PassedIn(seen, s) \ lost}
TrapAddrs(seen, lost, s) == {ip \in Ip \cap (seen \ lost) : TrapHit(hosts[ip], s)}

(* What the database answered: misread are the hosts it failed to find.    *)
Errors(unread, stuck, cut) ==
  /\ faults' = IF cut \/ unread \cup stuck # {} THEN faults + 1 ELSE faults
  /\ faults' <= MaxFaults
  /\ misread' = {t[1] : t \in unread}

GreyScan(seen, lost, unread, stuck) ==
  /\ Holds("scanner")
  /\ DoChanges(seen, lost, unread, stuck, clock["scanner"])
  /\ whitelist' = WhiteAddrs(seen, lost, clock["scanner"])
  /\ traplist' = TrapAddrs(seen, lost, clock["scanner"])
  /\ phase' = "pf"
  /\ Done("scanner")
  /\ Errors(unread, stuck, seen # Key)
  /\ UNCHANGED <<now, spamtraps, startup, pf, earned>>

(* "bad", or no database to open: what was queued is applied, the lists    *)
(* are freed unused.                                                       *)
GreyScanBad(seen, lost, unread, stuck) ==
  /\ Holds("scanner")
  /\ DoChanges(seen, lost, unread, stuck, clock["scanner"])
  /\ Done("scanner")
  /\ Errors(unread, stuck, FALSE)
  /\ UNCHANGED <<now, spamtraps, startup, scan, pf, earned>>

(* configure_pf replaces the table; greyscan ignores that it failed.       *)
(* Fault variant: an empty list is not sent to pfctl.                      *)
ConfigurePfUnlessEmpty(ok) ==
  /\ phase = "pf"
  /\ pf' = IF ok /\ whitelist # {} THEN whitelist ELSE pf
  /\ phase' = "spamd"
  /\ UNCHANGED <<now, clock, db, startup, whitelist, traplist, earned, misread, faults>>
ConfigurePf(ok) ==
  /\ phase = "pf"
  /\ pf' = IF ok THEN whitelist ELSE pf
  /\ phase' = "spamd"
  /\ UNCHANGED <<now, clock, db, startup, whitelist, traplist, earned, misread, faults>>

(* configure_spamd writes the trapped hosts as one line, and greyscan      *)
(* frees its lists and sleeps.                                             *)
ConfigureSpamd ==
  /\ phase = "spamd"
  /\ whitelist' = {} /\ traplist' = {}
  /\ phase' = "scan"
  /\ UNCHANGED <<now, clock, db, startup, pf, earned, misread, faults>>

-----------------------------------------------------------------------------
(* spamd is killed at any point and started again: the database and the    *)
(* kernel's table survive, the rest is gone.                               *)
Restart ==
  /\ faults < MaxFaults
  /\ faults' = faults + 1
  /\ clock' = [clock EXCEPT !["reader"] = NotRead, !["scanner"] = NotRead]
  /\ startup' = now
  /\ phase' = "scan"
  /\ whitelist' = {} /\ traplist' = {}
  /\ UNCHANGED <<now, db, pf, earned, misread>>

Client ==
  \E ip \in Ip, m \in Mail, local \in BOOLEAN, low \in BOOLEAN :
    GreyUpdate(ip, m, local, low)
Vouch(ip) ==
  \/ \E life \in PeerLife : TwUpdate(ip, FALSE, life)
  \/ SpamlogdUpdate(ip)
  \/ SpamdbWhite(ip)
Accuse(ip) ==
  \/ \E life \in PeerLife : TwUpdate(ip, TRUE, life)
  \/ SpamdbTrap(ip)
Scanner ==
  \/ /\ Holds("scanner")
     /\ \E seen \in SUBSET Key :
          \E lost \in SUBSET ListedIn(seen, clock["scanner"]),
             unread \in SUBSET PassedIn(seen, clock["scanner"]), stuck \in SUBSET seen :
            GreyScan(seen, lost, unread, stuck) \/ GreyScanBad(seen, lost, unread, stuck)
  \/ \E ok \in BOOLEAN : ConfigurePf(ok)
  \/ ConfigureSpamd

Next ==
  \/ Tick
  \/ \E d \in Daemon : ReadClock(d)
  \/ Client
  \/ \E d \in Daemon : UpdateFails(d)
  \/ \E ip \in Ip : Vouch(ip) \/ Accuse(ip) \/ SpamdbDelete(ip)
  \/ \E m \in Mail : SpamdbSpamtrap(m)
  \/ Scanner
  \/ Restart

Spec == Init /\ [][Next]_vars

(* greyscanner scans for ever.  A scan that finds no memory, or a pfctl    *)
(* that fails, is tried again at the next round and does not fail every    *)
(* time; the errors of the database are bounded.                           *)
Fairness ==
  /\ WF_vars(ReadClock("scanner"))
  /\ SF_vars(GreyScan(Key, {}, {}, {}))
  /\ SF_vars(ConfigurePf(TRUE))
  /\ WF_vars(ConfigureSpamd)

FairSpec == Spec /\ Fairness

-----------------------------------------------------------------------------
(* Properties.                                                             *)

(* Only a host with a reason to be there is let past spamd: a retry inside *)
(* the window of its tuple, a peer or spamlogd or the administrator that   *)
(* vouched for it.  An unretried tuple has pass = expire, and a retry of   *)
(* an expired tuple that no scan has deleted yet still moves its pass; a   *)
(* scan must whitelist neither, whatever the age of its clock reading.     *)
PfWasEarned == pf \cup whitelist \subseteq earned

(* The host's own mail never turns a trapped host white, nor does a scan  *)
(* that could read the database: a passed tuple of that host must not      *)
(* replace its trap entry.  A scan whose lookup of the host fails does.    *)
Trapped(ip) == hosts[ip] # NoEntry /\ hosts[ip].pcount = -1
White(ip) == hosts[ip] # NoEntry /\ hosts[ip].pcount = 0
Misread(ip) == Holds("scanner") /\ Done("scanner") /\ ip \in misread'
NotUndone == \A ip \in Ip : Trapped(ip) /\ White(ip)' => Vouch(ip) \/ Misread(ip)
TrapNotUndone == [][NotUndone]_vars

(* All in all a host passes the way that Passage describes.  Between scan  *)
(* and configure_pf the whitelist is the list that pf has not yet seen.    *)
StandingOf(ip) ==
  IF White(ip) THEN "white" ELSE IF Trapped(ip) THEN "trapped" ELSE "unknown"
Standings == [ip \in Ip |-> StandingOf(ip)]
Pending == IF phase = "pf" THEN {whitelist} ELSE {}

Way == INSTANCE Passage WITH standing <- Standings, pending <- Pending

IsPassage == Way!Spec

(* Once the hosts that the database lets through stay the same, the pf     *)
(* table becomes and stays that set, the empty one too.                    *)
WhiteNow == WhiteAddrs(Key, {}, now)
PfConverges ==
  \A S \in SUBSET Ip : <>[](WhiteNow = S) => <>[](pf = S)
=============================================================================
