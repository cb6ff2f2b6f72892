------------------------------ MODULE SyncNet ------------------------------
(***************************************************************************)
(* Several spamd hosts that keep each other's databases up to date         *)
(* (sync.c).  What greyupdate did for a client of its own it sends to all  *)
(* peers, as one UDP datagram each; a peer's jail hands it to its own      *)
(* greyupdate or twupdate.  spamlogd sends the clients that pf let pass.   *)
(* The network loses, delays, duplicates and reorders datagrams.           *)
(*                                                                         *)
(* One host has the low priority MX address: who tries it first is         *)
(* trapped.  A conformant client does not, it tries the other hosts before.*)
(* Each client sends one mail, so that its tuple goes by its address; a    *)
(* host may have the mail's recipient for a spamtrap, or its domain for a  *)
(* foreign one.  The entries are those of GreyDb, and greyupdate is one    *)
(* step, which may fail.  What a scan misreads, and spamdb, are Greylist's.*)
(***************************************************************************)
EXTENDS GreyDb, FiniteSets

CONSTANTS
  Host,
  LowMx,       (* the host whose spamd has a low priority MX address (-M)   *)
  Late,        (* bound on the age of a datagram                            *)
  MaxTime,     (* bound on the clock                                        *)
  MaxNet,      (* bound on the datagrams under way when a client comes      *)
  MaxFaults,   (* bound on outages, lost datagrams and failed updates       *)
  Lossy        (* whether datagrams get lost and updates fail               *)

ASSUME HostAssumption == LowMx \in Host /\ Host # {LowMx}
ASSUME NetAssumption ==
  /\ {Late, MaxTime, MaxNet, MaxFaults} \subseteq Nat
  /\ Lossy \in BOOLEAN

VARIABLES
  now,
  hosts, tuples,   \* per host: entries keyed by ip, entries keyed by tuple
  pf, traps,       \* per host: what the last scan gave to pf and to the jail
  up,              \* per host: whether it runs
  startup,         \* when LowMx came up
  net,             \* datagrams under way
  tried,           \* per client: the hosts tried in this attempt to deliver
  bait,            \* per host: clients whose recipient is a trap there
  first, patient,  \* history: a client's first recorded contact, clients that came back
  unheard,         \* history: clients whose attempt was not reported to LowMx
  faults

db == <<hosts, tuples>>
tables == <<pf, traps>>
client == <<tried, first, patient, bait>>
vars == <<now, db, tables, up, startup, net, client, unheard, faults>>

Other == Host \ {LowMx}
Never == -1
Datagram == [type : {"GREY", "WHITE", "TRAPPED"}, to : Host, ip : Ip, expire : Nat, sent : Nat]

TypeOK ==
  /\ now \in 0 .. MaxTime
  /\ hosts \in [Host -> [Ip -> Entry]] /\ tuples \in [Host -> [Ip -> Entry]]
  /\ pf \in [Host -> SUBSET Ip] /\ traps \in [Host -> SUBSET Ip]
  /\ up \in [Host -> BOOLEAN] /\ startup \in 0 .. MaxTime
  /\ net \subseteq Datagram
  /\ \A d \in net : d.sent \in now - Late .. now
  /\ tried \in [Ip -> SUBSET Other] /\ bait \in [Host -> SUBSET Ip]
  /\ first \in [Ip -> Never .. MaxTime] /\ patient \subseteq Ip
  /\ unheard \subseteq Ip
  /\ faults \in 0 .. MaxFaults

Init ==
  /\ now = 0
  /\ hosts = [h \in Host |-> [ip \in Ip |-> NoEntry]] /\ tuples = hosts
  /\ pf = [h \in Host |-> {}] /\ traps = pf
  /\ up = [h \in Host |-> TRUE] /\ startup = 0
  /\ net = {}
  /\ tried = [ip \in Ip |-> {}] /\ bait \in [Host -> SUBSET Ip]
  /\ first = [ip \in Ip |-> Never] /\ patient = {}
  /\ unheard = {} /\ faults = 0

-----------------------------------------------------------------------------
(* sync_update, sync_trapped and sync_white: one datagram to each peer.    *)
Sent(h, type, ip, expire) ==
  {[type |-> type, to |-> p, ip |-> ip, expire |-> expire, sent |-> now] : p \in Host \ {h}}

SetHost(h, ip, e) == hosts' = [hosts EXCEPT ![h][ip] = e]
SetTuple(h, ip, e) == tuples' = [tuples EXCEPT ![h][ip] = e]

(* greyupdate, with other the datagrams that stay under way.  local is     *)
(* FALSE for a tuple that a peer sent.  trapcheck finds the recipient: the *)
(* client is trapped whatever its entry was, and its tuple is not looked   *)
(* up.                                                                     *)
Trap(h, ip, local) ==
  \/ ip \in bait[h]
  \/ tuples[h][ip] = NoEntry /\ LowPrioTrap(local, h = LowMx, startup, now)
TrapEntry(h, ip) ==
  IF ip \in bait[h] /\ hosts[h][ip] # NoEntry
  THEN Retried(hosts[h][ip], now, TRUE) ELSE NewTrap(now)
Entered(e) == IF e = NoEntry THEN NewGrey(now) ELSE Retried(e, now, FALSE)

(* What is sent on: nothing, for what a peer sent.  Fault variants: that   *)
(* too; only what is new here.                                             *)
ToldEchoes(h, ip, local) ==
  IF Trap(h, ip, local) THEN Sent(h, "TRAPPED", ip, now + TrapExp)
  ELSE Sent(h, "GREY", ip, 0)
ToldQuiet(h, ip, local) ==
  IF ~local \/ tuples[h][ip] # NoEntry THEN {}
  ELSE IF Trap(h, ip, local) THEN Sent(h, "TRAPPED", ip, now + TrapExp)
  ELSE Sent(h, "GREY", ip, 0)
Told(h, ip, local) ==
  IF ~local THEN {}
  ELSE IF Trap(h, ip, local) THEN Sent(h, "TRAPPED", ip, now + TrapExp)
  ELSE Sent(h, "GREY", ip, 0)

GreyUpdate(h, ip, local, other) ==
  /\ net' = other \cup Told(h, ip, local)
  /\ IF Trap(h, ip, local)
     THEN SetHost(h, ip, TrapEntry(h, ip)) /\ UNCHANGED tuples
     ELSE SetTuple(h, ip, Entered(tuples[h][ip])) /\ UNCHANGED hosts

-----------------------------------------------------------------------------
(* A datagram that gets lost, or an update of the database that fails.     *)
Fault ==
  /\ Lossy
  /\ faults < MaxFaults
  /\ faults' = faults + 1

(* Clients.  One in pf's table talks to the mail server, and spamlogd logs *)
(* it; one on the jail's list is not reported; any other is.               *)

Attempt(h, ip) ==
  /\ h = LowMx => tried[ip] = Other
  /\ tried' = [tried EXCEPT ![ip] = IF h = LowMx THEN {} ELSE @ \cup {h}]

Passes(h, ip) ==
  /\ ip \in pf[h]
  /\ SetHost(h, ip, SeenEntry(hosts[h][ip], now))
  /\ net' = net \cup Sent(h, "WHITE", ip, now + WHITEEXP)
  /\ UNCHANGED tuples
Stutters(h, ip) ==
  /\ ip \in traps[h] \ pf[h]
  /\ UNCHANGED <<db, net>>
Reported(h, ip) ==
  /\ ip \notin traps[h] \cup pf[h]
  /\ GreyUpdate(h, ip, TRUE, net)

Contact(h, ip) ==
  /\ up[h]
  /\ Cardinality(net) < MaxNet
  /\ Attempt(h, ip)
  /\ first' = [first EXCEPT ![ip] = IF @ = Never THEN now ELSE @]
  /\ patient' = IF now - first'[ip] + Late > PassTime THEN patient \cup {ip} ELSE patient
  /\ Passes(h, ip) \/ Stutters(h, ip) \/ Reported(h, ip)
  /\ unheard' = IF h = LowMx THEN unheard \ {ip}
                ELSE IF ip \in traps[h] \cup pf[h] THEN unheard \cup {ip}
                ELSE unheard
  /\ UNCHANGED <<now, tables, up, startup, bait, faults>>

(* A host that is down takes no part in the client's attempt, and one whose*)
(* update of the database fails records nothing and tells nobody.          *)
ContactFails(h, ip) ==
  /\ IF up[h] THEN Fault ELSE UNCHANGED faults
  /\ Attempt(h, ip)
  /\ unheard' = IF h = LowMx THEN unheard \ {ip} ELSE unheard \cup {ip}
  /\ UNCHANGED <<now, db, tables, up, startup, net, first, patient, bait>>

-----------------------------------------------------------------------------
(* sync_recv at d.to, after which the datagrams of rest are under way.     *)
(* twupdate takes no expiry that is in the past.                           *)

TwUpdate(d) ==
  IF d.expire >= now
  THEN SetHost(d.to, d.ip, TwEntry(hosts[d.to][d.ip], d.type = "TRAPPED", now, d.expire))
  ELSE UNCHANGED hosts

SyncRecv(d, rest) ==
  /\ d \in net /\ up[d.to]
  /\ \/ d.type = "GREY" /\ GreyUpdate(d.to, d.ip, FALSE, rest)
     \/ d.type # "GREY" /\ TwUpdate(d) /\ net' = rest /\ UNCHANGED tuples
  /\ UNCHANGED <<now, tables, up, startup, client, unheard, faults>>

Receive(d) == SyncRecv(d, net \ {d})
Duplicate(d) == SyncRecv(d, net)

(* A datagram finds its host down, is lost on the way or its update fails. *)
Lose(d) ==
  /\ d \in net
  /\ IF up[d.to] THEN Fault ELSE UNCHANGED faults
  /\ net' = net \ {d}
  /\ unheard' = IF d.type = "GREY" /\ d.to = LowMx THEN unheard \cup {d.ip} ELSE unheard
  /\ UNCHANGED <<now, db, tables, up, startup, client>>

-----------------------------------------------------------------------------
(* greyscan at h, with pf's table replaced and the jail told, as one step. *)
(* The jail takes no list without an address, so the list before stays.    *)

Scan(h) ==
  LET H == hosts[h]  T == tuples[h]
      hits == {ip \in Ip : TrapHit(H[ip], now)}
  IN /\ up[h]
     /\ hosts' = [hosts EXCEPT ![h] = [ip \in Ip |->
                    IF H[ip] = NoEntry /\ Passed(T[ip], now) THEN Promoted(T[ip], now)
                    ELSE IF Expired(H[ip], now) THEN NoEntry ELSE H[ip]]]
     /\ tuples' = [tuples EXCEPT ![h] = [ip \in Ip |->
                    IF Expired(T[ip], now) THEN NoEntry ELSE T[ip]]]
     /\ pf' = [pf EXCEPT ![h] = {ip \in Ip : Passed(H[ip], now) \/ Passed(T[ip], now)}]
     /\ traps' = [traps EXCEPT ![h] = IF hits = {} THEN @ ELSE hits]
     /\ unheard' = IF h = LowMx THEN unheard \cup {ip \in Ip : Expired(T[ip], now)} ELSE unheard
     /\ UNCHANGED <<now, up, startup, net, client, faults>>

(* A datagram is received or lost before it is older than Late.            *)
Tick ==
  /\ now < MaxTime
  /\ \A d \in net : now - d.sent < Late
  /\ now' = now + 1
  /\ UNCHANGED <<db, tables, up, startup, net, client, unheard, faults>>

(* A machine goes down and is booted again: the database survives.         *)
Crash(h) ==
  /\ up[h] /\ faults < MaxFaults
  /\ faults' = faults + 1
  /\ up' = [up EXCEPT ![h] = FALSE]
  /\ pf' = [pf EXCEPT ![h] = {}] /\ traps' = [traps EXCEPT ![h] = {}]
  /\ UNCHANGED <<now, db, startup, net, client, unheard>>
Restart(h) ==
  /\ ~up[h]
  /\ up' = [up EXCEPT ![h] = TRUE]
  /\ startup' = IF h = LowMx THEN now ELSE startup
  /\ UNCHANGED <<now, db, tables, net, client, unheard, faults>>

Next ==
  \/ \E h \in Host, ip \in Ip : Contact(h, ip) \/ ContactFails(h, ip)
  \/ \E d \in net : Receive(d) \/ Duplicate(d) \/ Lose(d)
  \/ \E h \in Host : Scan(h) \/ Crash(h) \/ Restart(h)
  \/ Tick

Spec == Init /\ [][Next]_vars

(* The network delivers a datagram or loses it.                            *)
FairSpec == Spec /\ WF_vars(\E d \in net : Receive(d) \/ Lose(d))

-----------------------------------------------------------------------------
(* Properties.                                                             *)

TrappedAt(h, ip) == hosts[h][ip] # NoEntry /\ hosts[h][ip].pcount = -1
UnderWay(ip) == \E d \in net : d.type = "GREY" /\ d.ip = ip /\ d.to = LowMx
Condemned(ip) == ~TrappedAt(LowMx, ip) /\ TrappedAt(LowMx, ip)'

(* LowMx traps a client that tries the other hosts first only if the       *)
(* recipient of its mail is a trap on one of the hosts, or for a reason of *)
(* this attempt: another host was down, let the client pass, held it as    *)
(* trapped already or failed to record it, and so reported nothing; its    *)
(* report is still under way or was lost; or the tuple came to its end     *)
(* between the report and the client.                                      *)
Baited == UNION {bait[h] : h \in Host}
Excused(ip) == ip \in Baited \/ ip \in unheard \/ UnderWay(ip)
TrappedForAReason ==
  [][\A ip \in Ip : Condemned(ip) => Excused(ip)]_vars

(* Whatever is lost, delayed or repeated, a host lets only those clients   *)
(* pass that came back after the wait, which the delay of a datagram may   *)
(* shorten by no more than its own length.                                 *)
EarnedSomewhere ==
  \A h \in Host : pf[h] \subseteq patient

(* What a host hears of its peers makes it send nothing: unless clients    *)
(* keep coming, the hosts fall silent.                                     *)
Quiet ==
  []<><<\E h \in Host, ip \in Ip : Contact(h, ip)>>_vars \/ <>[](net = {})

(* "This will ensure that hosts are not trapped erroneously if the higher  *)
(* priority MX is unavailable" (spamd.8), once all datagrams have arrived. *)
NotTrappedErroneously ==
  [][\A ip \in Ip : Condemned(ip) => ip \in Baited \/ UnderWay(ip)]_vars
=============================================================================
