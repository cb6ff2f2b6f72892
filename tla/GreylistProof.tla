--------------------------- MODULE GreylistProof ---------------------------
(***************************************************************************)
(* Proofs about Greylist, for all sets of hosts and mails, all lifetimes   *)
(* and all bounds: type correctness, that only a host with a reason is let *)
(* past spamd, that a trap is not undone by the trapped host, and that     *)
(* Greylist implements Passage.                                            *)
(***************************************************************************)
EXTENDS Greylist, TLAPS

-----------------------------------------------------------------------------
(* What the record operators of GreyDb return, for all entries and times.  *)

(* LEMMA: every entry a program writes is a well-formed record.          *)
LEMMA EntryTypes ==
  ASSUME NEW c \in Nat, NEW life \in Nat, NEW e \in Entry, NEW trap \in BOOLEAN
  PROVE  /\ NewGrey(c) \in Gdata
         /\ NewTrap(c) \in Gdata
         /\ e # NoEntry => Retried(e, c, trap) \in Gdata
         /\ TwEntry(e, trap, c, c + life) \in Gdata
         /\ SeenEntry(e, c) \in Gdata
         /\ SpamdbWhiteEntry(e, c) \in Gdata
         /\ SpamdbTrapEntry(e, c) \in Gdata
         /\ e # NoEntry => Promoted(e, c) \in Gdata
<1> USE TimesAssumption DEF Entry, Gdata
<1>1. NewGrey(c) \in Gdata  BY DEF NewGrey
<1>2. NewTrap(c) \in Gdata  BY DEF NewTrap
<1>3. e # NoEntry => Retried(e, c, trap) \in Gdata  BY DEF Retried
<1>4. TwEntry(e, trap, c, c + life) \in Gdata  BY DEF TwEntry
<1>5. SeenEntry(e, c) \in Gdata
  <2>1. CASE e = NoEntry  BY <2>1 DEF SeenEntry
  <2>2. CASE e # NoEntry
    <3>1. e \in Gdata  BY <2>2
    <3>2. [e EXCEPT !.pcount = 0] \in Gdata  BY <3>1
    <3>3. SeenEntry(e, c) = [[e EXCEPT !.pcount = 0] EXCEPT !.expire = c + WHITEEXP]
      BY <2>2, <3>1 DEF SeenEntry
    <3>4. \A x \in Gdata : [x EXCEPT !.expire = c + WHITEEXP] \in Gdata  OBVIOUS
    <3>5. QED  BY <3>2, <3>3, <3>4
  <2>3. QED  BY <2>1, <2>2
<1>6. SpamdbWhiteEntry(e, c) \in Gdata  BY DEF SpamdbWhiteEntry
<1>7. SpamdbTrapEntry(e, c) \in Gdata  BY DEF SpamdbTrapEntry
<1>8. e # NoEntry => Promoted(e, c) \in Gdata  BY DEF Promoted
<1>9. QED  BY <1>1, <1>2, <1>3, <1>4, <1>5, <1>6, <1>7, <1>8

(* LEMMA: which of them never leave a host white.                        *)
LEMMA EntryTraps ==
  /\ \A c \in Nat : NewTrap(c).pcount # 0
  /\ \A c \in Nat, e \in Gdata : Retried(e, c, TRUE).pcount # 0
  /\ \A c, exp \in Nat, e \in Entry : TwEntry(e, TRUE, c, exp).pcount # 0
  /\ \A c \in Nat, e \in Entry : SpamdbTrapEntry(e, c).pcount # 0
<1>1. \A c \in Nat : NewTrap(c).pcount # 0  BY DEF NewTrap
<1>2. \A c \in Nat, e \in Gdata : Retried(e, c, TRUE).pcount # 0
  BY DEF Retried, Gdata
<1>3. \A c, exp \in Nat, e \in Entry : TwEntry(e, TRUE, c, exp).pcount # 0
  BY DEF TwEntry, Entry, Gdata
<1>4. \A c \in Nat, e \in Entry : SpamdbTrapEntry(e, c).pcount # 0
  BY DEF SpamdbTrapEntry
<1>5. QED  BY <1>1, <1>2, <1>3, <1>4

(* LEMMA: a passed entry passed before it expires.                       *)
LEMMA PassedBeforeExpiry ==
  ASSUME NEW s \in Nat, NEW e \in Entry, Passed(e, s)
  PROVE  e \in Gdata /\ e.pass < e.expire /\ e.pcount = 0
BY DEF Passed, Expired, Entry, Gdata

-----------------------------------------------------------------------------
(* Type correctness.                                                       *)

(* LEMMA: what do_changes leaves of a host's entry: the entry, nothing, or *)
(* what one of the host's tuples was promoted to.                          *)
LEMMA ScanHosts ==
  ASSUME NEW seen, NEW lost, NEW unread, NEW stuck, NEW s,
         DoChanges(seen, lost, unread, stuck, s), NEW ip \in Ip
  PROVE  \/ hosts'[ip] = hosts[ip]
         \/ hosts'[ip] = NoEntry
         \/ \E m \in Mail : /\ Promotes(ip, m, seen, lost, unread, s)
                           /\ hosts'[ip] = Promoted(tuples[<<ip, m>>], s)
<1>1. hosts'[ip] \in Remains(ip, seen, lost, unread, stuck, s)  BY DEF DoChanges
<1>2. CASE hosts'[ip] \in Queued(ip, seen, lost, unread, s)  BY <1>2 DEF Queued
<1>3. CASE hosts'[ip] \notin Queued(ip, seen, lost, unread, s)
  BY <1>1, <1>3 DEF Remains
<1>4. QED  BY <1>2, <1>3

(* LEMMA: what do_changes leaves in the database has its type.             *)
LEMMA ScanType ==
  ASSUME TypeOK, NEW seen, NEW lost, NEW unread, NEW stuck, NEW s \in Nat,
         DoChanges(seen, lost, unread, stuck, s)
  PROVE  hosts' \in [Ip -> Entry] /\ tuples' \in [Tuple -> Entry]
<1>1. ASSUME NEW ip \in Ip, NEW m \in Mail, Promotes(ip, m, seen, lost, unread, s)
      PROVE  Promoted(tuples[<<ip, m>>], s) \in Entry
  <2>1. tuples[<<ip, m>>] \in Entry /\ tuples[<<ip, m>>] # NoEntry
    BY <1>1 DEF TypeOK, Tuple, Promotes, PassedIn, Passed
  <2>2. QED  BY <2>1, EntryTypes DEF Entry
<1>2. \A ip \in Ip : hosts'[ip] \in Entry
  <2> SUFFICES ASSUME NEW ip \in Ip PROVE hosts'[ip] \in Entry  OBVIOUS
  <2>1. CASE hosts'[ip] = hosts[ip]  BY <2>1 DEF TypeOK
  <2>2. CASE hosts'[ip] = NoEntry  BY <2>2 DEF Entry
  <2>3. CASE \E m \in Mail : /\ Promotes(ip, m, seen, lost, unread, s)
                            /\ hosts'[ip] = Promoted(tuples[<<ip, m>>], s)
    BY <2>3, <1>1
  <2>4. QED  BY <2>1, <2>2, <2>3, ScanHosts
<1>3. PICK V : hosts' \in [Ip -> V]  BY DEF DoChanges
<1>4. hosts' \in [Ip -> Entry]  BY <1>2, <1>3
<1>5. tuples' \in [Tuple -> Entry]
  BY DEF DoChanges, TypeOK, Entry
<1>6. QED  BY <1>4, <1>5

(* LEMMA: every step of every program keeps the types.                     *)
LEMMA TypeInductive == TypeOK /\ [Next]_vars => TypeOK'
<1> SUFFICES ASSUME TypeOK, [Next]_vars PROVE TypeOK'  OBVIOUS
<1> USE TimesAssumption, MailAssumption, PeerAssumption, BoundsAssumption, NotReadAssumption
<1>n. /\ \A d \in Daemon : Holds(d) => clock[d] \in Clock /\ clock[d] \in Nat
      /\ now \in Nat
  BY DEF TypeOK, Holds, Clock
<1>d. \A d \in Daemon : Done(d) => clock' \in [Daemon -> Clock \cup {NotRead}]
  BY DEF TypeOK, Done
<1>w. {"reader", "scanner", "spamlogd"} = Daemon  BY DEF Daemon, Writer
<1>1. CASE Tick  BY <1>1 DEF Tick, TypeOK, Clock, db, scan
<1>2. CASE \E d \in Daemon : ReadClock(d)
  BY <1>2 DEF ReadClock, TypeOK, Clock, db, scan
<1>3. CASE Client
  <2>1. PICK ip \in Ip, m \in Mail, local \in BOOLEAN, low \in BOOLEAN :
          GreyUpdate(ip, m, local, low)
    BY <1>3 DEF Client
  <2> DEFINE c == clock["reader"]
  <2>2. c \in Nat  BY <2>1, <1>n, <1>w DEF GreyUpdate
  <2>3. hosts[ip] \in Entry /\ tuples[<<ip, m>>] \in Entry /\ <<ip, m>> \in Tuple
    BY DEF TypeOK, Tuple
  <2>4. hosts' \in [Ip -> Entry] /\ tuples' \in [Tuple -> Entry] /\ earned' \subseteq Ip
    <3>1. CASE GreyTrap(ip, m, c)
      <4>1. (IF hosts[ip] = NoEntry THEN NewTrap(c) ELSE Retried(hosts[ip], c, TRUE)) \in Entry
        BY <2>2, <2>3, EntryTypes DEF Entry
      <4>2. QED  BY <4>1, <3>1 DEF GreyTrap, TypeOK
    <3>2. CASE GreyNew(ip, m, c, local, low)
      <4>1. NewTrap(c) \in Entry /\ NewGrey(c) \in Entry
        BY <2>2, <2>3, EntryTypes DEF Entry
      <4>2. QED  BY <4>1, <3>2 DEF GreyNew, TypeOK
    <3>3. CASE GreyRetry(ip, m, c)
      <4>1. Retried(tuples[<<ip, m>>], c, FALSE) \in Entry
        BY <2>2, <2>3, <3>3, EntryTypes DEF Entry, GreyRetry
      <4>2. QED  BY <4>1, <3>3 DEF GreyRetry, EarnedBy, TypeOK
    <3>4. QED  BY <2>1, <3>1, <3>2, <3>3 DEF GreyUpdate
  <2>5. clock' \in [Daemon -> Clock \cup {NotRead}]
    BY <2>1, <1>d, <1>w DEF GreyUpdate
  <2>6. QED  BY <2>1, <2>4, <2>5 DEF GreyUpdate, TypeOK, scan
<1>4. ASSUME NEW ip \in Ip, Vouch(ip) \/ Accuse(ip) \/ SpamdbDelete(ip)
      PROVE  TypeOK'
  <2>1. hosts[ip] \in Entry  BY DEF TypeOK
  <2>2. ASSUME NEW life \in PeerLife, NEW trap \in BOOLEAN, TwUpdate(ip, trap, life)
        PROVE  TypeOK'
    <3>1. TwEntry(hosts[ip], trap, clock["reader"], clock["reader"] + life) \in Entry
      BY <2>1, <2>2, <1>n, <1>w, EntryTypes DEF TwUpdate, Entry
    <3>2. clock' \in [Daemon -> Clock \cup {NotRead}]
      BY <2>2, <1>d, <1>w DEF TwUpdate
    <3>3. QED  BY <3>1, <3>2, <2>2 DEF TwUpdate, TypeOK, scan
  <2>3. CASE SpamlogdUpdate(ip)
    <3>1. SeenEntry(hosts[ip], clock["spamlogd"]) \in Entry
      BY <2>1, <2>3, <1>n, <1>w, EntryTypes DEF SpamlogdUpdate, Entry
    <3>2. clock' \in [Daemon -> Clock \cup {NotRead}]
      BY <2>3, <1>d, <1>w DEF SpamlogdUpdate
    <3>3. QED  BY <3>1, <3>2, <2>3 DEF SpamlogdUpdate, TypeOK, scan
  <2>4. CASE SpamdbWhite(ip)
    <3>1. SpamdbWhiteEntry(hosts[ip], now) \in Entry
      BY <2>1, <1>n, EntryTypes DEF Entry
    <3>2. QED  BY <3>1, <2>4 DEF SpamdbWhite, TypeOK, scan
  <2>5. CASE SpamdbTrap(ip)
    <3>1. SpamdbTrapEntry(hosts[ip], now) \in Entry
      BY <2>1, <1>n, EntryTypes DEF Entry
    <3>2. QED  BY <3>1, <2>5 DEF SpamdbTrap, TypeOK, scan
  <2>6. CASE SpamdbDelete(ip)
    BY <2>6 DEF SpamdbDelete, TypeOK, scan, Entry
  <2>7. QED  BY <1>4, <2>2, <2>3, <2>4, <2>5, <2>6 DEF Vouch, Accuse
<1>5. CASE \E m \in Mail : SpamdbSpamtrap(m)
  BY <1>5 DEF SpamdbSpamtrap, TypeOK, scan
<1>6. ASSUME NEW seen, NEW lost, NEW unread \in SUBSET Tuple, NEW stuck,
             \/ GreyScan(seen, lost, unread, stuck)
             \/ GreyScanBad(seen, lost, unread, stuck)
      PROVE  TypeOK'
  <2>1. clock["scanner"] \in Nat /\ clock' \in [Daemon -> Clock \cup {NotRead}]
    BY <1>6, <1>n, <1>d, <1>w DEF GreyScan, GreyScanBad
  <2>2. hosts' \in [Ip -> Entry] /\ tuples' \in [Tuple -> Entry]
    BY <1>6, <2>1, ScanType DEF GreyScan, GreyScanBad
  <2>3. misread' \subseteq Ip /\ faults' \in 0 .. MaxFaults
    <3>1. Errors(unread, stuck, seen # Key) \/ Errors(unread, stuck, FALSE)
      BY <1>6 DEF GreyScan, GreyScanBad
    <3>2. \A t \in unread : t[1] \in Ip  BY DEF Tuple
    <3>3. QED  BY <3>1, <3>2 DEF Errors, TypeOK
  <2>4. CASE GreyScan(seen, lost, unread, stuck)
    BY <2>4, <2>1, <2>2, <2>3 DEF GreyScan, WhiteAddrs, TrapAddrs, TypeOK
  <2>5. CASE GreyScanBad(seen, lost, unread, stuck)
    BY <2>5, <2>1, <2>2, <2>3 DEF GreyScanBad, TypeOK, scan
  <2>6. QED  BY <1>6, <2>4, <2>5
<1>7. CASE \E d \in Daemon : UpdateFails(d)
  BY <1>7, <1>d DEF UpdateFails, TypeOK, db, scan
<1>8. ASSUME NEW ok \in BOOLEAN, ConfigurePf(ok)  PROVE TypeOK'
  BY <1>8 DEF ConfigurePf, TypeOK, db
<1>9. CASE ConfigureSpamd  BY <1>9 DEF ConfigureSpamd, TypeOK, db
<1>10. CASE Restart  BY <1>10, <1>w DEF Restart, TypeOK, db
<1>11. CASE UNCHANGED vars  BY <1>11 DEF vars, TypeOK, db, scan
<1>12. CASE Scanner
  BY <1>12, <1>6, <1>8, <1>9 DEF Scanner, PassedIn
<1>13. QED
  BY <1>1, <1>2, <1>3, <1>4, <1>5, <1>7, <1>10, <1>11, <1>12 DEF Next

(* Every reachable state has the types of struct gdata and of the lists    *)
(* of grey.c.                                                              *)
THEOREM TypeCorrect == Spec => []TypeOK
<1>1. Init => TypeOK
  BY BoundsAssumption DEF Init, TypeOK, Clock, Entry
<1>2. QED  BY <1>1, TypeInductive, PTL DEF Spec

-----------------------------------------------------------------------------
(* Only a host with a reason is let past spamd.  PfWasEarned alone is not  *)
(* inductive: what a scan will put on the list is already in the database. *)

(* An entry of a host that is not trapped was earned.                      *)
HostsEarned == \A ip \in Ip : White(ip) => ip \in earned

(* A tuple that passes before it expires was retried in its window.        *)
TuplesEarned ==
  \A t \in Tuple : (tuples[t] # NoEntry /\ tuples[t].pass < tuples[t].expire)
                     => t[1] \in earned

EarnedInv == PfWasEarned /\ HostsEarned /\ TuplesEarned

(* What greyscan applies and lists was earned.                             *)
LEMMA ScanEarned ==
  ASSUME TypeOK, EarnedInv, NEW seen, NEW lost, NEW unread, NEW stuck, NEW s \in Nat,
         DoChanges(seen, lost, unread, stuck, s), earned' = earned
  PROVE  HostsEarned' /\ TuplesEarned' /\ WhiteAddrs(seen, lost, s) \subseteq earned
<1>1. ASSUME NEW ip \in Ip, NEW m \in Mail, Passed(tuples[<<ip, m>>], s)
      PROVE  /\ ip \in earned
             /\ tuples[<<ip, m>>] \in Gdata
  <2>1. <<ip, m>> \in Tuple /\ tuples[<<ip, m>>] \in Entry  BY DEF TypeOK, Tuple
  <2>2. /\ tuples[<<ip, m>>] \in Gdata
        /\ tuples[<<ip, m>>].pass < tuples[<<ip, m>>].expire
    BY <1>1, <2>1, PassedBeforeExpiry
  <2>3. tuples[<<ip, m>>] # NoEntry  BY <1>1 DEF Passed
  <2>4. QED  BY <2>1, <2>2, <2>3 DEF EarnedInv, TuplesEarned
<1>2. ASSUME NEW ip \in Ip, Passed(hosts[ip], s)  PROVE ip \in earned
  <2>1. hosts[ip] \in Entry  BY DEF TypeOK
  <2>2. hosts[ip].pcount = 0 /\ hosts[ip] # NoEntry
    BY <1>2, <2>1, PassedBeforeExpiry DEF Passed
  <2>3. QED  BY <2>2 DEF EarnedInv, HostsEarned, White
<1>4. HostsEarned'
  <2> SUFFICES ASSUME NEW ip \in Ip, White(ip)'  PROVE ip \in earned
    BY DEF HostsEarned
  <2>1. CASE \E m \in Mail : Promotes(ip, m, seen, lost, unread, s)
    BY <2>1, <1>1 DEF Promotes, PassedIn
  <2>2. CASE hosts'[ip] = hosts[ip]
    BY <2>2 DEF EarnedInv, HostsEarned, White
  <2>3. QED  BY <2>1, <2>2, ScanHosts DEF White
<1>5. TuplesEarned'
  <2> SUFFICES ASSUME NEW t \in Tuple, tuples'[t] # NoEntry,
                      tuples'[t].pass < tuples'[t].expire
               PROVE  t[1] \in earned
    BY DEF TuplesEarned
  <2>1. tuples'[t] = tuples[t]  BY DEF DoChanges
  <2>2. QED  BY <2>1 DEF EarnedInv, TuplesEarned
<1>6. WhiteAddrs(seen, lost, s) \subseteq earned
  BY <1>1, <1>2 DEF WhiteAddrs, PassedIn
<1>7. QED  BY <1>4, <1>5, <1>6

(* LEMMA: every step keeps what connects entries, lists and table with the *)
(* hosts that earned their passage.                                        *)
LEMMA EarnedInductive == TypeOK /\ EarnedInv /\ [Next]_vars => EarnedInv'
<1> SUFFICES ASSUME TypeOK, EarnedInv, [Next]_vars PROVE EarnedInv'  OBVIOUS
<1> USE TimesAssumption
<1>w. {"reader", "scanner", "spamlogd"} = Daemon  BY DEF Daemon, Writer
<1>n. \A d \in Daemon : Holds(d) => clock[d] \in Nat
  BY DEF TypeOK, Holds, Clock
<1>1. CASE Tick
  BY <1>1 DEF Tick, EarnedInv, PfWasEarned, HostsEarned, TuplesEarned, White, db, scan
<1>2. CASE \E d \in Daemon : ReadClock(d)
  BY <1>2 DEF ReadClock, EarnedInv, PfWasEarned, HostsEarned, TuplesEarned, White, db, scan
<1>3. CASE Client
  <2>1. PICK ip \in Ip, m \in Mail, local \in BOOLEAN, low \in BOOLEAN :
          GreyUpdate(ip, m, local, low)
    BY <1>3 DEF Client
  <2> DEFINE c == clock["reader"]
             e == tuples[<<ip, m>>]
  <2>2. c \in Nat  BY <2>1, <1>n, <1>w DEF GreyUpdate
  <2>3. hosts[ip] \in Entry /\ e \in Entry /\ <<ip, m>> \in Tuple
    BY DEF TypeOK, Tuple
  <2>4. earned \subseteq earned'
    BY <2>1 DEF GreyUpdate, GreyTrap, GreyNew, GreyRetry, EarnedBy
  <2>5. PfWasEarned'
    BY <2>1, <2>4 DEF GreyUpdate, EarnedInv, PfWasEarned, scan
  <2>6. HostsEarned'
    <3> SUFFICES ASSUME NEW i \in Ip, White(i)'  PROVE i \in earned'
      BY DEF HostsEarned
    <3>1. CASE hosts'[i] = hosts[i]
      BY <3>1, <2>4 DEF EarnedInv, HostsEarned, White
    <3>2. CASE hosts'[i] # hosts[i]
      <4>1. i = ip /\ \/ hosts'[i] = NewTrap(c)
                      \/ hosts[ip] # NoEntry /\ hosts'[i] = Retried(hosts[ip], c, TRUE)
        BY <2>1, <3>2 DEF GreyUpdate, GreyTrap, GreyNew, GreyRetry, TypeOK
      <4>2. /\ NewTrap(c).pcount # 0
            /\ hosts[ip] # NoEntry => Retried(hosts[ip], c, TRUE).pcount # 0
        BY <2>2, <2>3, EntryTraps DEF Entry
      <4>3. QED  BY <4>1, <4>2 DEF White
    <3>3. QED  BY <3>1, <3>2
  <2>7. TuplesEarned'
    <3> SUFFICES ASSUME NEW t \in Tuple, tuples'[t] # NoEntry,
                        tuples'[t].pass < tuples'[t].expire
                 PROVE  t[1] \in earned'
      BY DEF TuplesEarned
    <3>1. CASE tuples'[t] = tuples[t]
      BY <3>1, <2>4 DEF EarnedInv, TuplesEarned
    <3>2. CASE t = <<ip, m>> /\ tuples'[t] = NewGrey(c)
      BY <3>2, <2>2 DEF NewGrey
    <3>3. CASE /\ t = <<ip, m>> /\ e # NoEntry /\ tuples'[t] = Retried(e, c, FALSE)
               /\ earned' = EarnedBy(ip, e, c)
      <4>1. e \in Gdata /\ t[1] = ip  BY <3>3, <2>3 DEF Entry
      <4>2. Retried(e, c, FALSE).expire = e.expire
        BY <4>1 DEF Retried, Gdata
      <4>3. CASE RetryPasses(e, c)
        <5>1. Retried(e, c, FALSE).pass = c  BY <4>1, <4>3 DEF Retried, Gdata
        <5>2. QED  BY <3>3, <4>1, <4>2, <4>3, <5>1 DEF EarnedBy
      <4>4. CASE ~RetryPasses(e, c)
        <5>1. Retried(e, c, FALSE).pass = e.pass  BY <4>1, <4>4 DEF Retried, Gdata
        <5>2. ip \in earned
          BY <3>3, <4>1, <4>2, <5>1 DEF EarnedInv, TuplesEarned
        <5>3. QED  BY <2>4, <4>1, <5>2
      <4>5. QED  BY <4>3, <4>4
    <3>4. QED
      BY <2>1, <3>1, <3>2, <3>3
      DEF GreyUpdate, GreyTrap, GreyNew, GreyRetry, TypeOK
  <2>8. QED  BY <2>5, <2>6, <2>7 DEF EarnedInv
<1>4. ASSUME NEW ip \in Ip, Vouch(ip) \/ Accuse(ip) \/ SpamdbDelete(ip)
      PROVE  EarnedInv'
  <2>1. hosts[ip] \in Entry  BY DEF TypeOK
  <2>2. /\ earned \subseteq earned'
        /\ UNCHANGED <<pf, whitelist, tuples>>
    BY <1>4 DEF Vouch, Accuse, SpamdbDelete, TwUpdate, SpamlogdUpdate, SpamdbWhite,
                SpamdbTrap, scan
  <2>3. \A i \in Ip : i # ip => hosts'[i] = hosts[i]
    BY <1>4 DEF Vouch, Accuse, SpamdbDelete, TwUpdate, SpamlogdUpdate, SpamdbWhite,
                SpamdbTrap, TypeOK
  <2>4. White(ip)' => ip \in earned'
    <3>1. CASE Vouch(ip)
      BY <3>1 DEF Vouch, TwUpdate, SpamlogdUpdate, SpamdbWhite
    <3>2. ASSUME NEW life \in PeerLife, TwUpdate(ip, TRUE, life)  PROVE ~White(ip)'
      <4>1. clock["reader"] \in Nat /\ clock["reader"] + life \in Nat
        BY <3>2, <1>n, <1>w, PeerAssumption DEF TwUpdate
      <4>2. hosts'[ip] = TwEntry(hosts[ip], TRUE, clock["reader"], clock["reader"] + life)
        BY <3>2 DEF TwUpdate, TypeOK
      <4>3. TwEntry(hosts[ip], TRUE, clock["reader"], clock["reader"] + life).pcount # 0
        BY <4>1, <2>1, EntryTraps
      <4>4. QED  BY <4>2, <4>3 DEF White
    <3>3. CASE SpamdbTrap(ip)
      <4>1. now \in Nat  BY DEF TypeOK, Clock
      <4>2. hosts'[ip] = SpamdbTrapEntry(hosts[ip], now)
        BY <3>3 DEF SpamdbTrap, TypeOK
      <4>3. hosts'[ip].pcount # 0  BY <4>1, <4>2, <2>1, EntryTraps
      <4>4. QED  BY <4>3 DEF White
    <3>4. CASE SpamdbDelete(ip)
      BY <3>4 DEF SpamdbDelete, White, TypeOK
    <3>5. QED  BY <1>4, <3>1, <3>2, <3>3, <3>4 DEF Accuse
  <2>5. HostsEarned'
    BY <2>2, <2>3, <2>4 DEF EarnedInv, HostsEarned, White
  <2>6. QED  BY <2>2, <2>5 DEF EarnedInv, PfWasEarned, TuplesEarned
<1>5. CASE \E m \in Mail : SpamdbSpamtrap(m)
  BY <1>5 DEF SpamdbSpamtrap, EarnedInv, PfWasEarned, HostsEarned, TuplesEarned, White, scan
<1>6. ASSUME NEW seen, NEW lost, NEW unread, NEW stuck,
             \/ GreyScan(seen, lost, unread, stuck)
             \/ GreyScanBad(seen, lost, unread, stuck)
      PROVE  EarnedInv'
  <2>1. clock["scanner"] \in Nat  BY <1>6, <1>n, <1>w DEF GreyScan, GreyScanBad
  <2>2. HostsEarned' /\ TuplesEarned'
        /\ WhiteAddrs(seen, lost, clock["scanner"]) \subseteq earned
    BY <1>6, <2>1, ScanEarned DEF GreyScan, GreyScanBad
  <2>3. QED  BY <1>6, <2>2 DEF GreyScan, GreyScanBad, EarnedInv, PfWasEarned, scan
<1>7. CASE \E d \in Daemon : UpdateFails(d)
  BY <1>7 DEF UpdateFails, EarnedInv, PfWasEarned, HostsEarned, TuplesEarned, White, db, scan
<1>8. ASSUME NEW ok \in BOOLEAN, ConfigurePf(ok)  PROVE EarnedInv'
  BY <1>8 DEF ConfigurePf, EarnedInv, PfWasEarned, HostsEarned, TuplesEarned, White, db
<1>9. CASE ConfigureSpamd
  BY <1>9 DEF ConfigureSpamd, EarnedInv, PfWasEarned, HostsEarned, TuplesEarned, White, db
<1>10. CASE Restart
  BY <1>10 DEF Restart, EarnedInv, PfWasEarned, HostsEarned, TuplesEarned, White, db
<1>11. CASE UNCHANGED vars
  BY <1>11 DEF vars, EarnedInv, PfWasEarned, HostsEarned, TuplesEarned, White, db, scan
<1>12. QED
  BY <1>1, <1>2, <1>3, <1>4, <1>5, <1>6, <1>7, <1>8, <1>9, <1>10, <1>11
  DEF Next, Scanner

(* The pf table <spamd-white>, and the list a scan is about to load into   *)
(* it, hold only hosts that somebody vouched for or that retried a mail    *)
(* between passtime and greyexp after they first sent it.                  *)
THEOREM OnlyEarned == Spec => []PfWasEarned
<1>1. Init => EarnedInv
  BY DEF Init, EarnedInv, PfWasEarned, HostsEarned, TuplesEarned, White
<1>2. EarnedInv => PfWasEarned  BY DEF EarnedInv
<1>3. QED  BY <1>1, <1>2, EarnedInductive, TypeCorrect, PTL DEF Spec

-----------------------------------------------------------------------------
(* A trap is not undone by the host itself.                                *)

(* LEMMA: a step that turns a trapped host white is one of those that      *)
(* vouch for it, or a scan that failed to look it up.                      *)
LEMMA NotUndoneStep == TypeOK /\ [Next]_vars => [NotUndone]_vars
<1> SUFFICES ASSUME TypeOK, Next, NEW ip \in Ip, Trapped(ip), White(ip)'
             PROVE  Vouch(ip) \/ Misread(ip)
  BY DEF NotUndone
<1>w. {"reader", "scanner", "spamlogd"} = Daemon  BY DEF Daemon, Writer
<1>n. /\ \A d \in Daemon : Holds(d) => clock[d] \in Nat
      /\ now \in Nat
  BY DEF TypeOK, Holds, Clock
<1>e. \A i \in Ip : hosts[i] \in Entry  BY DEF TypeOK
<1>c. hosts'[ip] # hosts[ip]  BY DEF Trapped, White
<1>1. ASSUME NEW i \in Ip, NEW m \in Mail, NEW local \in BOOLEAN, NEW low \in BOOLEAN,
             GreyUpdate(i, m, local, low)
      PROVE  FALSE
  <2> DEFINE c == clock["reader"]
  <2>1. \/ hosts'[ip] = NewTrap(c)
        \/ hosts[ip] # NoEntry /\ hosts'[ip] = Retried(hosts[ip], c, TRUE)
    BY <1>1, <1>c DEF GreyUpdate, GreyTrap, GreyNew, GreyRetry, TypeOK
  <2>2. c \in Nat  BY <1>1, <1>n, <1>w DEF GreyUpdate
  <2>3. hosts'[ip].pcount # 0  BY <2>1, <2>2, <1>e, EntryTraps DEF Entry
  <2>4. QED  BY <2>3 DEF White
<1>2. ASSUME NEW i \in Ip, Vouch(i)  PROVE i = ip
  BY <1>2, <1>c DEF Vouch, TwUpdate, SpamlogdUpdate, SpamdbWhite, TypeOK
<1>3. ASSUME NEW i \in Ip, NEW life \in PeerLife, TwUpdate(i, TRUE, life)  PROVE FALSE
  <2>1. clock["reader"] \in Nat /\ clock["reader"] + life \in Nat
    BY <1>3, <1>n, <1>w, PeerAssumption DEF TwUpdate
  <2>2. hosts'[ip] = TwEntry(hosts[ip], TRUE, clock["reader"], clock["reader"] + life)
    BY <1>3, <1>c DEF TwUpdate, TypeOK
  <2>3. hosts'[ip].pcount # 0  BY <2>1, <2>2, <1>e, EntryTraps DEF Entry
  <2>4. QED  BY <2>3 DEF White
<1>4. ASSUME NEW i \in Ip, SpamdbTrap(i)  PROVE FALSE
  <2>1. hosts'[ip] = SpamdbTrapEntry(hosts[ip], now)
    BY <1>4, <1>c DEF SpamdbTrap, TypeOK
  <2>2. hosts'[ip].pcount # 0  BY <2>1, <1>n, <1>e, EntryTraps
  <2>3. QED  BY <2>2 DEF White
<1>5. ASSUME NEW i \in Ip, SpamdbDelete(i)  PROVE FALSE
  BY <1>5, <1>c DEF SpamdbDelete, TypeOK, White
<1>6. ASSUME NEW seen, NEW lost, NEW unread, NEW stuck,
             \/ GreyScan(seen, lost, unread, stuck)
             \/ GreyScanBad(seen, lost, unread, stuck)
      PROVE  Misread(ip)
  <2> DEFINE s == clock["scanner"]
  <2>1. DoChanges(seen, lost, unread, stuck, s)  BY <1>6 DEF GreyScan, GreyScanBad
  <2>2. PICK m \in Mail : Promotes(ip, m, seen, lost, unread, s)
    BY <2>1, <1>c, ScanHosts DEF White
  <2>3. <<ip, m>> \in unread  BY <2>2 DEF Promotes, Trapped
  <2>4. ip \in misread'
    <3>1. <<ip, m>>[1] = ip  OBVIOUS
    <3>2. QED  BY <1>6, <2>3, <3>1 DEF GreyScan, GreyScanBad, Errors
  <2>5. QED  BY <1>6, <2>4 DEF GreyScan, GreyScanBad, Misread
<1>7. ASSUME UNCHANGED hosts  PROVE FALSE
  BY <1>7, <1>c
<1>8. CASE Client  BY <1>8, <1>1 DEF Client
<1>9. CASE \E i \in Ip : Vouch(i) \/ Accuse(i) \/ SpamdbDelete(i)
  BY <1>9, <1>2, <1>3, <1>4, <1>5 DEF Accuse
<1>10. CASE Scanner
  BY <1>10, <1>6, <1>7 DEF Scanner, ConfigurePf, ConfigureSpamd, db
<1>11. CASE \/ Tick \/ Restart
            \/ \E d \in Daemon : ReadClock(d) \/ UpdateFails(d)
            \/ \E m \in Mail : SpamdbSpamtrap(m)
  BY <1>11, <1>7 DEF Tick, Restart, ReadClock, UpdateFails, SpamdbSpamtrap, db
<1>12. QED  BY <1>8, <1>9, <1>10, <1>11 DEF Next

(* A trapped host becomes white in one step only by a peer, spamlogd or    *)
(* the administrator, or by a scan whose lookup of that very host failed:  *)
(* its own mail does not do it, nor any other failure of a scan.           *)
THEOREM TrapsHold == Spec => TrapNotUndone
<1>1. QED  BY NotUndoneStep, TypeCorrect, PTL DEF Spec, TrapNotUndone

-----------------------------------------------------------------------------
(* Greylist implements Passage.                                            *)

(* A scan that waits for the lock has handed over what the last one made.  *)
ScannerWaits == Holds("scanner") => phase = "scan"

PassageInv == TypeOK /\ EarnedInv /\ ScannerWaits

(* LEMMA: ... in every reachable state.                                    *)
LEMMA PassageInvariant == Spec => []PassageInv
<1>w. {"reader", "scanner", "spamlogd"} = Daemon  BY DEF Daemon, Writer
<1>1. Init => EarnedInv /\ ScannerWaits
  BY <1>w DEF Init, EarnedInv, PfWasEarned, HostsEarned, TuplesEarned, White,
              ScannerWaits, Holds
<1>2. TypeOK /\ ScannerWaits /\ [Next]_vars => ScannerWaits'
  <2> SUFFICES ASSUME TypeOK, ScannerWaits, [Next]_vars, Holds("scanner")'
               PROVE  phase' = "scan"
    BY DEF ScannerWaits
  <2>1. clock \in [Daemon -> Clock \cup {NotRead}] /\ "scanner" \in Daemon
    BY <1>w DEF TypeOK
  <2>2. ASSUME clock'["scanner"] = clock["scanner"], phase' = phase  PROVE phase' = "scan"
    BY <2>2 DEF ScannerWaits, Holds
  <2>3. ASSUME NEW d \in Writer, Done(d)  PROVE clock'["scanner"] = clock["scanner"]
    BY <2>1, <2>3 DEF Done, Writer
  <2>4. CASE \/ Tick \/ UNCHANGED vars
             \/ \E m \in Mail : SpamdbSpamtrap(m)
             \/ \E ip \in Ip : SpamdbWhite(ip) \/ SpamdbTrap(ip) \/ SpamdbDelete(ip)
    BY <2>2, <2>4 DEF Tick, vars, SpamdbSpamtrap, SpamdbWhite, SpamdbTrap, SpamdbDelete, scan
  <2>5. ASSUME NEW d \in Daemon, ReadClock(d)  PROVE phase' = "scan"
    BY <2>1, <2>2, <2>5 DEF ReadClock, scan
  <2>6. CASE Client \/ \E d \in Daemon : UpdateFails(d)
    BY <2>2, <2>3, <2>6 DEF Client, GreyUpdate, UpdateFails, Writer, scan
  <2>7. CASE \E ip \in Ip : \/ \E life \in PeerLife, trap \in BOOLEAN : TwUpdate(ip, trap, life)
                           \/ SpamlogdUpdate(ip)
    BY <2>2, <2>3, <2>7 DEF TwUpdate, SpamlogdUpdate, Writer, scan
  <2>8. CASE Scanner
    <3>1. ASSUME clock' = [clock EXCEPT !["scanner"] = NotRead]  PROVE FALSE
      BY <2>1, <3>1 DEF Holds
    <3>2. ASSUME NEW ok, ConfigurePf(ok)  PROVE phase' = "scan"
      BY <3>2 DEF ConfigurePf, ScannerWaits, Holds
    <3>3. CASE ConfigureSpamd  BY <3>3 DEF ConfigureSpamd
    <3>4. QED  BY <2>8, <3>1, <3>2, <3>3 DEF Scanner, GreyScan, GreyScanBad, Done
  <2>9. CASE Restart  BY <2>9 DEF Restart
  <2>10. QED
    BY <2>4, <2>5, <2>6, <2>7, <2>8, <2>9 DEF Next, Vouch, Accuse
<1>3. QED
  BY <1>1, <1>2, TypeCorrect, EarnedInductive, PTL DEF Spec, PassageInv

(* LEMMA: an update of one host changes the standing of that host only.    *)
LEMMA OneStanding ==
  ASSUME NEW ip \in Ip, \A i \in Ip : i # ip => hosts'[i] = hosts[i]
  PROVE  Standings' = [Standings EXCEPT ![ip] = StandingOf(ip)']
<1>1. \A i \in Ip : i # ip => StandingOf(i)' = StandingOf(i)
  BY DEF StandingOf, White, Trapped
<1>2. QED  BY <1>1 DEF Standings

(* LEMMA: a change of one host's entry is a Trap or a Delete; with a new   *)
(* reason it is a Vouch.                                                   *)
LEMMA EntryStep ==
  ASSUME NEW ip \in Ip, \A i \in Ip : i # ip => hosts'[i] = hosts[i],
         UNCHANGED <<phase, whitelist, pf, misread>>
  PROVE  /\ Trapped(ip)' /\ UNCHANGED earned => Way!Trap(ip)
         /\ hosts'[ip] = NoEntry /\ UNCHANGED earned => Way!Delete(ip)
         /\ White(ip)' /\ earned' = earned \cup {ip} => Way!Vouch(ip)
<1>1. Standings' = [Standings EXCEPT ![ip] = StandingOf(ip)']  BY OneStanding
<1>2. UNCHANGED Pending  BY DEF Pending
<1>3. /\ White(ip)' => StandingOf(ip)' = "white"
      /\ Trapped(ip)' => StandingOf(ip)' = "trapped"
      /\ hosts'[ip] = NoEntry => StandingOf(ip)' = "unknown"
  BY DEF StandingOf, White, Trapped
<1>4. QED  BY <1>1, <1>2, <1>3 DEF Way!Trap, Way!Delete, Way!Vouch

(* LEMMA: which entries are white and which are trapped.                   *)
LEMMA EntryStandings ==
  ASSUME NEW c \in Nat, NEW life \in Nat, NEW e \in Entry
  PROVE  /\ NewTrap(c).pcount = -1
         /\ e # NoEntry => Retried(e, c, TRUE).pcount = -1
         /\ TwEntry(e, TRUE, c, c + life).pcount = -1
         /\ SpamdbTrapEntry(e, c).pcount = -1
         /\ TwEntry(e, FALSE, c, c + life).pcount = 0
         /\ SeenEntry(e, c).pcount = 0
         /\ SpamdbWhiteEntry(e, c).pcount = 0
<1>1. NewTrap(c).pcount = -1  BY DEF NewTrap
<1>2. e # NoEntry => Retried(e, c, TRUE).pcount = -1
  BY DEF Retried, Entry, Gdata
<1>3. /\ TwEntry(e, TRUE, c, c + life).pcount = -1
      /\ TwEntry(e, FALSE, c, c + life).pcount = 0
  BY DEF TwEntry, Entry, Gdata
<1>4. SeenEntry(e, c).pcount = 0
  BY DEF SeenEntry, Entry, Gdata
<1>5. SpamdbTrapEntry(e, c).pcount = -1 /\ SpamdbWhiteEntry(e, c).pcount = 0
  BY DEF SpamdbTrapEntry, SpamdbWhiteEntry
<1>6. QED  BY <1>1, <1>2, <1>3, <1>4, <1>5

(* LEMMA: the changes of a scan are a Review, and those it promotes are    *)
(* among the addresses for pf, but for those it failed to look up.         *)
LEMMA ScanReviews ==
  ASSUME TypeOK, EarnedInv, NEW seen, NEW lost, NEW unread \in SUBSET Tuple, NEW stuck,
         NEW s \in Nat, DoChanges(seen, lost, unread, stuck, s),
         misread' = {t[1] : t \in unread}, UNCHANGED <<earned, pf>>
  PROVE  \E forgotten, promoted \in SUBSET Ip :
           /\ Way!Review(forgotten, promoted)
           /\ promoted \ misread' \subseteq WhiteAddrs(seen, lost, s)
<1> DEFINE By(ip, m) == /\ Promotes(ip, m, seen, lost, unread, s)
                        /\ hosts'[ip] = Promoted(tuples[<<ip, m>>], s)
           promoted == {ip \in Ip : \E m \in Mail : By(ip, m)}
           forgotten == {ip \in Ip : hosts'[ip] = NoEntry}
<1>1. ASSUME NEW ip \in promoted
      PROVE  /\ ip \in earned
             /\ StandingOf(ip) = "unknown" \/ ip \in misread'
             /\ StandingOf(ip)' = "white"
             /\ ip \in misread' \/ ip \in WhiteAddrs(seen, lost, s)
  <2>1. PICK m \in Mail : By(ip, m)  BY <1>1
  <2> DEFINE t == <<ip, m>>
             e == tuples[t]
  <2>2. /\ t \in Tuple /\ e \in Entry /\ t[1] = ip
        /\ Passed(e, s) /\ t \in PassedIn(seen, s)
        /\ t \in unread \/ (t \notin lost /\ hosts[ip] = NoEntry)
    BY <2>1 DEF TypeOK, Tuple, Promotes, PassedIn
  <2>3. e \in Gdata /\ e.pass < e.expire /\ e.pcount = 0  BY <2>2, PassedBeforeExpiry
  <2>4. ip \in earned
    <3>1. e # NoEntry  BY <2>2 DEF Passed
    <3>2. QED  BY <2>2, <2>3, <3>1 DEF EarnedInv, TuplesEarned
  <2>5. t \in unread => ip \in misread'
    <3>1. t \in unread => t[1] \in misread'  OBVIOUS
    <3>2. QED  BY <2>2, <3>1
  <2>6. hosts[ip] = NoEntry => StandingOf(ip) = "unknown"
    BY DEF StandingOf, White, Trapped
  <2>7. StandingOf(ip)' = "white"
    <3>1. hosts'[ip] = Promoted(e, s)  BY <2>1
    <3>2. Promoted(e, s) \in Gdata /\ Promoted(e, s).pcount = 0
      BY <2>3, TimesAssumption DEF Promoted, Gdata
    <3>3. Promoted(e, s) # NoEntry  BY <3>2, NoEntryAssumption
    <3>4. QED  BY <3>1, <3>2, <3>3 DEF StandingOf, White
  <2>8. t \notin lost => ip \in WhiteAddrs(seen, lost, s)  BY <2>2 DEF WhiteAddrs
  <2>9. QED  BY <2>2, <2>4, <2>5, <2>6, <2>7, <2>8
<1>2. ASSUME NEW ip \in Ip \ promoted
      PROVE  StandingOf(ip)' = IF ip \in forgotten THEN "unknown" ELSE StandingOf(ip)
  <2>1. hosts'[ip] = hosts[ip] \/ hosts'[ip] = NoEntry
    <3>1. ~\E m \in Mail : By(ip, m)  OBVIOUS
    <3>2. \/ hosts'[ip] = hosts[ip] \/ hosts'[ip] = NoEntry
          \/ \E m \in Mail : By(ip, m)
      <4> HIDE DEF promoted, forgotten
      <4>1. QED  BY ScanHosts
    <3>3. QED  BY <3>1, <3>2
  <2>2. QED  BY <2>1 DEF StandingOf, White, Trapped
<1>3. Standings' = [ip \in Ip |-> IF ip \in promoted THEN "white"
                                  ELSE IF ip \in forgotten THEN "unknown"
                                  ELSE Standings[ip]]
  BY <1>1, <1>2 DEF Standings
<1>4. \A ip \in promoted : Standings[ip] = "unknown" \/ ip \in misread'
  BY <1>1 DEF Standings
<1>5. promoted \subseteq earned /\ promoted \ misread' \subseteq WhiteAddrs(seen, lost, s)
  BY <1>1
<1>6. promoted \in SUBSET Ip /\ forgotten \in SUBSET Ip  OBVIOUS
<1>7. misread' \in SUBSET Ip
  <2>1. \A t \in unread : t[1] \in Ip  BY DEF Tuple
  <2>2. QED  BY <2>1
<1> HIDE DEF promoted, forgotten
<1>8. Way!Review(forgotten, promoted)
  BY <1>3, <1>4, <1>5, <1>7 DEF Way!Review
<1>9. QED  BY <1>5, <1>6, <1>8

(* LEMMA: every step of every program is a step of Passage or a stutter.   *)
LEMMA PassageStep == PassageInv /\ [Next]_vars => [Way!Next]_Way!vars
<1> SUFFICES ASSUME PassageInv, [Next]_vars, ~UNCHANGED Way!vars PROVE Way!Next  OBVIOUS
<1> USE DEF PassageInv
<1>w. {"reader", "scanner", "spamlogd"} = Daemon  BY DEF Daemon, Writer
<1>n. /\ \A d \in Daemon : Holds(d) => clock[d] \in Nat
      /\ now \in Nat
  BY DEF TypeOK, Holds, Clock
<1>e. \A ip \in Ip : hosts[ip] \in Entry  BY DEF TypeOK
<1>t. \A ip \in Ip : hosts'[ip] \in Gdata => hosts'[ip] # NoEntry  BY NoEntryAssumption
<1>s. ~UNCHANGED <<hosts, phase, whitelist, earned, pf, misread>>
  BY DEF Way!vars, Standings, StandingOf, White, Trapped, Pending
<1>1. ASSUME NEW ip \in Ip, Way!Earn(ip) \/ Way!Vouch(ip) \/ Way!Trap(ip) \/ Way!Delete(ip)
      PROVE  Way!Next
  BY <1>1 DEF Way!Next
<1>2. CASE Client
  <2>1. PICK ip \in Ip, m \in Mail, local \in BOOLEAN, low \in BOOLEAN :
          GreyUpdate(ip, m, local, low)
    BY <1>2 DEF Client
  <2> DEFINE c == clock["reader"]
  <2>2. c \in Nat /\ UNCHANGED <<phase, whitelist, pf, misread>>
    BY <2>1, <1>n, <1>w DEF GreyUpdate, scan
  <2>3. CASE UNCHANGED hosts
    <3>1. earned' = earned \cup {ip}
      BY <1>s, <2>1, <2>2, <2>3 DEF GreyUpdate, GreyTrap, GreyNew, GreyRetry, EarnedBy
    <3>2. UNCHANGED <<Standings, Pending>>
      BY <2>2, <2>3 DEF Standings, StandingOf, White, Trapped, Pending
    <3>3. Way!Earn(ip)  BY <2>2, <3>1, <3>2 DEF Way!Earn
    <3>4. QED  BY <1>1, <3>3
  <2>4. CASE ~UNCHANGED hosts
    <3>1. /\ \A i \in Ip : i # ip => hosts'[i] = hosts[i]
          /\ \/ hosts'[ip] = NewTrap(c)
             \/ hosts[ip] # NoEntry /\ hosts'[ip] = Retried(hosts[ip], c, TRUE)
          /\ UNCHANGED earned
      BY <2>1, <2>4 DEF GreyUpdate, GreyTrap, GreyNew, GreyRetry, TypeOK
    <3>2. hosts'[ip] \in Gdata /\ hosts'[ip].pcount = -1
      BY <3>1, <2>2, <1>e, EntryTypes, EntryStandings
    <3>3. Trapped(ip)'  BY <3>2, <1>t DEF Trapped
    <3>4. QED  BY <1>1, <2>2, <3>1, <3>3, EntryStep
  <2>5. QED  BY <2>3, <2>4
<1>3. ASSUME NEW ip \in Ip, Vouch(ip) \/ Accuse(ip) \/ SpamdbDelete(ip)
      PROVE  Way!Next
  <2>1. /\ \A i \in Ip : i # ip => hosts'[i] = hosts[i]
        /\ UNCHANGED <<phase, whitelist, pf, misread>>
    BY <1>3 DEF Vouch, Accuse, SpamdbDelete, TwUpdate, SpamlogdUpdate, SpamdbWhite,
                SpamdbTrap, TypeOK, scan
  <2>2. CASE Vouch(ip)
    <3>1. earned' = earned \cup {ip}
      BY <2>2 DEF Vouch, TwUpdate, SpamlogdUpdate, SpamdbWhite
    <3>2. hosts'[ip] \in Gdata /\ hosts'[ip].pcount = 0
      <4>1. ASSUME NEW life \in PeerLife, TwUpdate(ip, FALSE, life)
            PROVE  hosts'[ip] \in Gdata /\ hosts'[ip].pcount = 0
        <5>1. hosts'[ip] = TwEntry(hosts[ip], FALSE, clock["reader"], clock["reader"] + life)
          BY <4>1 DEF TwUpdate, TypeOK
        <5>2. clock["reader"] \in Nat /\ life \in Nat
          BY <4>1, <1>n, <1>w, PeerAssumption DEF TwUpdate
        <5>3. TwEntry(hosts[ip], FALSE, clock["reader"], clock["reader"] + life) \in Gdata
          BY <5>2, <1>e, EntryTypes
        <5>4. TwEntry(hosts[ip], FALSE, clock["reader"], clock["reader"] + life).pcount = 0
          BY <5>2, <1>e, EntryStandings
        <5>5. QED  BY <5>1, <5>3, <5>4
      <4>2. CASE SpamlogdUpdate(ip)
        <5>1. hosts'[ip] = SeenEntry(hosts[ip], clock["spamlogd"])
          BY <4>2 DEF SpamlogdUpdate, TypeOK
        <5>2. clock["spamlogd"] \in Nat  BY <4>2, <1>n, <1>w DEF SpamlogdUpdate
        <5>3. SeenEntry(hosts[ip], clock["spamlogd"]) \in Gdata
          BY <5>2, <1>e, EntryTypes
        <5>4. SeenEntry(hosts[ip], clock["spamlogd"]).pcount = 0
          BY <5>2, <1>e, EntryStandings
        <5>5. QED  BY <5>1, <5>3, <5>4
      <4>3. CASE SpamdbWhite(ip)
        <5>1. hosts'[ip] = SpamdbWhiteEntry(hosts[ip], now)
          BY <4>3 DEF SpamdbWhite, TypeOK
        <5>2. SpamdbWhiteEntry(hosts[ip], now) \in Gdata
          BY <1>n, <1>e, EntryTypes
        <5>3. SpamdbWhiteEntry(hosts[ip], now).pcount = 0
          BY <1>n, <1>e, EntryStandings
        <5>4. QED  BY <5>1, <5>2, <5>3
      <4>4. QED  BY <2>2, <4>1, <4>2, <4>3 DEF Vouch
    <3>3. White(ip)'  BY <3>2, <1>t DEF White
    <3>4. QED  BY <1>1, <2>1, <3>1, <3>3, EntryStep
  <2>3. CASE Accuse(ip)
    <3>1. UNCHANGED earned  BY <2>3 DEF Accuse, TwUpdate, SpamdbTrap
    <3>2. hosts'[ip] \in Gdata /\ hosts'[ip].pcount = -1
      <4>1. ASSUME NEW life \in PeerLife, TwUpdate(ip, TRUE, life)
            PROVE  hosts'[ip] \in Gdata /\ hosts'[ip].pcount = -1
        <5>1. hosts'[ip] = TwEntry(hosts[ip], TRUE, clock["reader"], clock["reader"] + life)
          BY <4>1 DEF TwUpdate, TypeOK
        <5>2. clock["reader"] \in Nat /\ life \in Nat
          BY <4>1, <1>n, <1>w, PeerAssumption DEF TwUpdate
        <5>3. TwEntry(hosts[ip], TRUE, clock["reader"], clock["reader"] + life) \in Gdata
          BY <5>2, <1>e, EntryTypes
        <5>4. TwEntry(hosts[ip], TRUE, clock["reader"], clock["reader"] + life).pcount = -1
          BY <5>2, <1>e, EntryStandings
        <5>5. QED  BY <5>1, <5>3, <5>4
      <4>2. CASE SpamdbTrap(ip)
        <5>1. hosts'[ip] = SpamdbTrapEntry(hosts[ip], now)
          BY <4>2 DEF SpamdbTrap, TypeOK
        <5>2. SpamdbTrapEntry(hosts[ip], now) \in Gdata
          BY <1>n, <1>e, EntryTypes
        <5>3. SpamdbTrapEntry(hosts[ip], now).pcount = -1
          BY <1>n, <1>e, EntryStandings
        <5>4. QED  BY <5>1, <5>2, <5>3
      <4>3. QED  BY <2>3, <4>1, <4>2 DEF Accuse
    <3>3. Trapped(ip)'  BY <3>2, <1>t DEF Trapped
    <3>4. QED  BY <1>1, <2>1, <3>1, <3>3, EntryStep
  <2>4. CASE SpamdbDelete(ip)
    <3>1. hosts'[ip] = NoEntry /\ UNCHANGED earned  BY <2>4 DEF SpamdbDelete, TypeOK
    <3>2. QED  BY <1>1, <2>1, <3>1, EntryStep
  <2>5. QED  BY <1>3, <2>2, <2>3, <2>4
<1>4. ASSUME NEW seen, NEW lost, NEW unread \in SUBSET Tuple, NEW stuck,
             GreyScan(seen, lost, unread, stuck)
      PROVE  Way!Next
  <2> DEFINE s == clock["scanner"]
  <2>1. s \in Nat /\ phase = "scan"  BY <1>4, <1>n, <1>w DEF GreyScan, ScannerWaits
  <2>2. /\ DoChanges(seen, lost, unread, stuck, s) /\ UNCHANGED <<earned, pf>>
        /\ whitelist' = WhiteAddrs(seen, lost, s) /\ phase' = "pf"
        /\ misread' = {t[1] : t \in unread}
    BY <1>4 DEF GreyScan, Errors
  <2>3. PICK forgotten \in SUBSET Ip, promoted \in SUBSET Ip :
          Way!Review(forgotten, promoted) /\ promoted \ misread' \subseteq whitelist'
    BY <2>1, <2>2, ScanReviews
  <2>4. whitelist' \subseteq earned  BY <2>1, <2>2, ScanEarned
  <2>5. Pending = {} /\ Pending' = {whitelist'}  BY <2>1, <2>2 DEF Pending
  <2>6. Way!Scan(forgotten, promoted)
    BY <2>3, <2>4, <2>5 DEF Way!Scan
  <2>7. QED  BY <2>6 DEF Way!Next
<1>5. ASSUME NEW seen, NEW lost, NEW unread \in SUBSET Tuple, NEW stuck,
             GreyScanBad(seen, lost, unread, stuck)
      PROVE  Way!Next
  <2> DEFINE s == clock["scanner"]
  <2>1. s \in Nat  BY <1>5, <1>n, <1>w DEF GreyScanBad
  <2>2. /\ DoChanges(seen, lost, unread, stuck, s) /\ UNCHANGED <<earned, pf, Pending>>
        /\ misread' = {t[1] : t \in unread}
    BY <1>5 DEF GreyScanBad, Errors, scan, Pending
  <2>3. PICK forgotten \in SUBSET Ip, promoted \in SUBSET Ip :
          Way!Review(forgotten, promoted)
    BY <2>1, <2>2, ScanReviews
  <2>4. Way!ScanFails(forgotten, promoted)  BY <2>2, <2>3 DEF Way!ScanFails
  <2>5. QED  BY <2>4 DEF Way!Next
<1>6. ASSUME NEW ok \in BOOLEAN, ConfigurePf(ok)  PROVE Way!Next
  <2>1. /\ Pending = {whitelist} /\ Pending' = {} /\ UNCHANGED <<Standings, earned, misread>>
    BY <1>6 DEF ConfigurePf, Pending, Standings, StandingOf, White, Trapped, db
  <2>2. pf' = whitelist \/ pf' = pf  BY <1>6 DEF ConfigurePf
  <2>3. Way!Load \/ Way!GiveUp  BY <2>1, <2>2 DEF Way!Load, Way!GiveUp
  <2>4. QED  BY <2>3 DEF Way!Next
<1>7. CASE ConfigureSpamd \/ Restart
  <2>1. Pending' = {} /\ UNCHANGED <<Standings, earned, pf, misread>>
    BY <1>7 DEF ConfigureSpamd, Restart, Pending, Standings, StandingOf, White, Trapped, db
  <2>2. Way!GiveUp  BY <2>1 DEF Way!GiveUp
  <2>3. QED  BY <2>2 DEF Way!Next
<1>8. CASE \/ Tick \/ UNCHANGED vars
           \/ \E d \in Daemon : ReadClock(d) \/ UpdateFails(d)
           \/ \E m \in Mail : SpamdbSpamtrap(m)
  BY <1>8, <1>s DEF Tick, vars, ReadClock, UpdateFails, SpamdbSpamtrap, db, scan
<1>9. CASE Scanner  BY <1>9, <1>4, <1>5, <1>6, <1>7 DEF Scanner, PassedIn
<1>10. QED
  BY <1>2, <1>3, <1>7, <1>8, <1>9 DEF Next

(* A host's passage goes as Passage says: earned first, promoted and handed*)
(* to pf by the same scan, each list tried once, a trap replaced by no scan*)
(* but one that failed to look the host up, with stale clocks, errors of   *)
(* the database, failing scans and restarts.                               *)
THEOREM Implements == Spec => IsPassage
<1>1. Init => Way!Init
  BY DEF Init, Way!Init, Standings, StandingOf, White, Trapped, Pending
<1>2. QED  BY <1>1, PassageStep, PassageInvariant, PTL DEF Spec, IsPassage, Way!Spec
=============================================================================
