---------------------------- MODULE SyncNetProof ----------------------------
(***************************************************************************)
(* Proofs about SyncNet, for any number of hosts and clients, all times,   *)
(* delays and faults, and a network that may lose what it likes.          *)
(***************************************************************************)
EXTENDS SyncNet, TLAPS

-----------------------------------------------------------------------------
(* What the record operators of GreyDb return, for all entries and times.  *)

(* LEMMA: every entry spamd writes is a well-formed record.              *)
LEMMA EntryTypes ==
  ASSUME NEW c \in Nat, NEW life \in Nat, NEW e \in Entry, NEW trap \in BOOLEAN
  PROVE  /\ NewGrey(c) \in Gdata
         /\ NewTrap(c) \in Gdata
         /\ e # NoEntry => Retried(e, c, trap) \in Gdata
         /\ TwEntry(e, trap, c, c + life) \in Gdata
         /\ SeenEntry(e, c) \in Gdata
         /\ e # NoEntry => Promoted(e, c) \in Gdata
<1> USE TimesAssumption DEF Entry, Gdata
<1>1. NewGrey(c) \in Gdata  BY DEF NewGrey
<1>2. NewTrap(c) \in Gdata  BY DEF NewTrap
<1>3. e # NoEntry => Retried(e, c, trap) \in Gdata  BY DEF Retried
<1>4. TwEntry(e, trap, c, c + life) \in Gdata  BY DEF TwEntry
<1>5. SeenEntry(e, c) \in Gdata
  <2>1. CASE e = NoEntry  BY <2>1 DEF SeenEntry
  <2>2. CASE e # NoEntry
    <3>1. e \in Gdata  BY <2>2
    <3>2. [e EXCEPT !.pcount = 0] \in Gdata  BY <3>1
    <3>3. SeenEntry(e, c) = [[e EXCEPT !.pcount = 0] EXCEPT !.expire = c + WHITEEXP]
      BY <2>2, <3>1 DEF SeenEntry
    <3>4. \A x \in Gdata : [x EXCEPT !.expire = c + WHITEEXP] \in Gdata  OBVIOUS
    <3>5. QED  BY <3>2, <3>3, <3>4
  <2>3. QED  BY <2>1, <2>2
<1>6. e # NoEntry => Promoted(e, c) \in Gdata  BY DEF Promoted
<1>7. QED  BY <1>1, <1>2, <1>3, <1>4, <1>5, <1>6

(* LEMMA: a passed entry passed before it expires.                       *)
LEMMA PassedBeforeExpiry ==
  ASSUME NEW s \in Nat, NEW e \in Entry, Passed(e, s)
  PROVE  e \in Gdata /\ e.pass < e.expire /\ e.pcount = 0
BY DEF Passed, Expired, Entry, Gdata

-----------------------------------------------------------------------------
(* The two tables of entries.                                              *)

(* LEMMA: putting one entry into one host's table.                         *)
LEMMA PutEntry ==
  ASSUME NEW f \in [Host -> [Ip -> Entry]], NEW h \in Host, NEW ip \in Ip, NEW e \in Entry
  PROVE  /\ [f EXCEPT ![h][ip] = e] \in [Host -> [Ip -> Entry]]
         /\ [f EXCEPT ![h][ip] = e][h][ip] = e
         /\ \A k \in Host, q \in Ip :
              k # h \/ q # ip => [f EXCEPT ![h][ip] = e][k][q] = f[k][q]
OBVIOUS

(* LEMMA: the entry of a trap is one, also for who had an entry.           *)
LEMMA TrapEntryType ==
  ASSUME TypeOK, NEW h \in Host, NEW ip \in Ip
  PROVE  TrapEntry(h, ip) \in Entry /\ TrapEntry(h, ip).pcount = -1
<1>1. hosts[h][ip] \in Entry /\ now \in Nat /\ TRUE \in BOOLEAN /\ 0 \in Nat
  BY NetAssumption DEF TypeOK
<1>2. NewTrap(now) \in Gdata /\ NewTrap(now).pcount = -1
  BY <1>1, TimesAssumption DEF NewTrap, Gdata
<1>3. ASSUME hosts[h][ip] # NoEntry
      PROVE  Retried(hosts[h][ip], now, TRUE) \in Gdata /\ Retried(hosts[h][ip], now, TRUE).pcount = -1
  <2>1. hosts[h][ip] \in Gdata  BY <1>1, <1>3 DEF Entry
  <2>2. Retried(hosts[h][ip], now, TRUE) \in Gdata  BY <1>1, <1>3, EntryTypes
  <2>3. QED  BY <2>1, <2>2 DEF Retried, Gdata
<1>4. QED  BY <1>2, <1>3 DEF TrapEntry, Entry

(* LEMMA: what greyupdate does: a trap or a tuple, and datagrams that are  *)
(* sent now.                                                               *)
LEMMA GreyUpdateDoes ==
  ASSUME TypeOK, NEW h \in Host, NEW ip \in Ip, NEW local \in BOOLEAN, NEW other,
         GreyUpdate(h, ip, local, other)
  PROVE  /\ net' \subseteq other \cup Sent(h, "TRAPPED", ip, now + TrapExp)
                                 \cup Sent(h, "GREY", ip, 0)
         /\ \/ /\ Trap(h, ip, local)
               /\ hosts' = [hosts EXCEPT ![h][ip] = TrapEntry(h, ip)] /\ tuples' = tuples
               /\ net' = other \cup (IF local THEN Sent(h, "TRAPPED", ip, now + TrapExp) ELSE {})
            \/ /\ ~Trap(h, ip, local)
               /\ tuples' = [tuples EXCEPT ![h][ip] = Entered(tuples[h][ip])] /\ hosts' = hosts
               /\ net' = other \cup (IF local THEN Sent(h, "GREY", ip, 0) ELSE {})
<1>1. CASE Trap(h, ip, local)
  BY <1>1 DEF GreyUpdate, Told, SetHost
<1>2. CASE ~Trap(h, ip, local)
  BY <1>2 DEF GreyUpdate, Told, SetTuple
<1>3. QED  BY <1>1, <1>2

-----------------------------------------------------------------------------
(* Types.                                                                  *)

(* LEMMA: what is sent is a datagram, sent now, to another host.           *)
LEMMA SentType ==
  ASSUME NEW h \in Host, NEW type \in {"GREY", "WHITE", "TRAPPED"}, NEW ip \in Ip,
         NEW expire \in Nat, now \in Nat
  PROVE  /\ Sent(h, type, ip, expire) \subseteq Datagram
         /\ \A d \in Sent(h, type, ip, expire) :
              d.sent = now /\ d.type = type /\ d.ip = ip /\ d.to # h
BY DEF Sent, Datagram

(* LEMMA: greyupdate and twupdate keep the types of tables and network.    *)
LEMMA GreyUpdateType ==
  ASSUME TypeOK, NEW h \in Host, NEW ip \in Ip, NEW local \in BOOLEAN,
         NEW other, other \subseteq net, GreyUpdate(h, ip, local, other)
  PROVE  /\ hosts' \in [Host -> [Ip -> Entry]] /\ tuples' \in [Host -> [Ip -> Entry]]
         /\ net' \subseteq Datagram
         /\ \A d \in net' : d.sent \in now - Late .. now
<1> USE TimesAssumption, NetAssumption
<1>1. now \in Nat /\ now + TrapExp \in Nat /\ 0 \in Nat /\ Late \in Nat  BY DEF TypeOK
<1>2. TrapEntry(h, ip) \in Entry  BY TrapEntryType
<1>3. \A e \in Entry : Entered(e) \in Entry
  <2>1. NewGrey(now) \in Gdata  BY <1>1 DEF NewGrey, Gdata
  <2>2. \A e \in Gdata : Retried(e, now, FALSE) \in Gdata
    BY <1>1 DEF Retried, Gdata
  <2>3. QED  BY <2>1, <2>2 DEF Entered, Entry
<1>4. tuples[h][ip] \in Entry  BY DEF TypeOK
<1>5. hosts' \in [Host -> [Ip -> Entry]] /\ tuples' \in [Host -> [Ip -> Entry]]
  <2>1. [hosts EXCEPT ![h][ip] = TrapEntry(h, ip)] \in [Host -> [Ip -> Entry]]
    BY <1>2, PutEntry DEF TypeOK
  <2>2. [tuples EXCEPT ![h][ip] = Entered(tuples[h][ip])] \in [Host -> [Ip -> Entry]]
    BY <1>3, <1>4, PutEntry DEF TypeOK
  <2>3. \/ hosts' = [hosts EXCEPT ![h][ip] = TrapEntry(h, ip)] /\ tuples' = tuples
        \/ tuples' = [tuples EXCEPT ![h][ip] = Entered(tuples[h][ip])] /\ hosts' = hosts
    BY GreyUpdateDoes
  <2>4. QED  BY <2>1, <2>2, <2>3, Zenon DEF TypeOK
<1>6. net' \subseteq Datagram /\ \A d \in net' : d.sent \in now - Late .. now
  <2>1. /\ Sent(h, "TRAPPED", ip, now + TrapExp) \subseteq Datagram
        /\ \A d \in Sent(h, "TRAPPED", ip, now + TrapExp) : d.sent = now
    BY <1>1, SentType
  <2>2. /\ Sent(h, "GREY", ip, 0) \subseteq Datagram
        /\ \A d \in Sent(h, "GREY", ip, 0) : d.sent = now
    BY <1>1, SentType
  <2>3. now \in now - Late .. now  BY <1>1
  <2>4. other \subseteq Datagram /\ \A d \in other : d.sent \in now - Late .. now
    BY DEF TypeOK
  <2>5. net' \subseteq other \cup Sent(h, "TRAPPED", ip, now + TrapExp) \cup Sent(h, "GREY", ip, 0)
    BY GreyUpdateDoes
  <2>6. QED  BY <2>1, <2>2, <2>3, <2>4, <2>5
<1>7. QED  BY <1>5, <1>6

(* LEMMA: every step keeps the types.                                      *)
LEMMA TypeInductive == TypeOK /\ [Next]_vars => TypeOK'
<1> SUFFICES ASSUME TypeOK, [Next]_vars PROVE TypeOK'  OBVIOUS
<1> USE TimesAssumption, NetAssumption, HostAssumption
<1>t. now \in Nat /\ now \in 0 .. MaxTime /\ MaxTime \in Nat /\ Late \in Nat  BY DEF TypeOK
<1>n. \A d \in net : d \in Datagram  BY DEF TypeOK
<1>1. ASSUME NEW h \in Host, NEW ip \in Ip, Contact(h, ip) PROVE TypeOK'
  <2>1. tried' \in [Ip -> SUBSET Other]
    BY <1>1 DEF Contact, Attempt, TypeOK, Other
  <2>2. first' \in [Ip -> Never .. MaxTime] /\ first'[ip] \in Int
    BY <1>1, <1>t DEF Contact, TypeOK, Never
  <2>3. patient' \subseteq Ip
    BY <1>1 DEF Contact, TypeOK
  <2>4. unheard' \subseteq Ip
    BY <1>1 DEF Contact, TypeOK
  <2>5. /\ hosts' \in [Host -> [Ip -> Entry]] /\ tuples' \in [Host -> [Ip -> Entry]]
        /\ net' \subseteq Datagram
        /\ \A d \in net' : d.sent \in now - Late .. now
    <3>1. CASE Passes(h, ip)
      <4>1. SeenEntry(hosts[h][ip], now) \in Entry
        <5>1. hosts[h][ip] \in Entry /\ 0 \in Nat /\ TRUE \in BOOLEAN  BY DEF TypeOK
        <5>2. SeenEntry(hosts[h][ip], now) \in Gdata  BY <1>t, <5>1, EntryTypes
        <5>3. QED  BY <5>2 DEF Entry
      <4>2. hosts' \in [Host -> [Ip -> Entry]]
        BY <3>1, <4>1, PutEntry DEF Passes, SetHost, TypeOK
      <4>3. now + WHITEEXP \in Nat  BY <1>t
      <4>4. /\ Sent(h, "WHITE", ip, now + WHITEEXP) \subseteq Datagram
            /\ \A d \in Sent(h, "WHITE", ip, now + WHITEEXP) : d.sent = now
        BY <1>t, <4>3, SentType
      <4>5. now \in now - Late .. now  BY <1>t
      <4>6. QED  BY <3>1, <4>2, <4>4, <4>5 DEF Passes, TypeOK
    <3>2. CASE Stutters(h, ip)
      BY <3>2 DEF Stutters, TypeOK, db
    <3>3. CASE Reported(h, ip)
      <4>1. GreyUpdate(h, ip, TRUE, net)  BY <3>3 DEF Reported
      <4>2. QED  BY <4>1, GreyUpdateType
    <3>4. QED  BY <1>1, <3>1, <3>2, <3>3 DEF Contact
  <2>6. UNCHANGED <<now, pf, traps, up, startup, bait, faults>>
    BY <1>1 DEF Contact, tables
  <2>7. QED  BY <2>1, <2>2, <2>3, <2>4, <2>5, <2>6 DEF TypeOK
<1>2. ASSUME NEW h \in Host, NEW ip \in Ip, ContactFails(h, ip) PROVE TypeOK'
  <2>1. tried' \in [Ip -> SUBSET Other]
    BY <1>2 DEF ContactFails, Attempt, TypeOK, Other
  <2>2. unheard' \subseteq Ip
    BY <1>2 DEF ContactFails, TypeOK
  <2>3. faults' \in 0 .. MaxFaults
    BY <1>2 DEF ContactFails, Fault, TypeOK
  <2>4. QED  BY <1>2, <2>1, <2>2, <2>3 DEF ContactFails, TypeOK, db, tables
<1>3. ASSUME NEW d \in net, NEW rest, rest \subseteq net, SyncRecv(d, rest) PROVE TypeOK'
  <2>1. d.to \in Host /\ d.ip \in Ip /\ d.expire \in Nat /\ d \in Datagram
    BY <1>n DEF Datagram
  <2>2. /\ hosts' \in [Host -> [Ip -> Entry]] /\ tuples' \in [Host -> [Ip -> Entry]]
        /\ net' \subseteq Datagram
        /\ \A x \in net' : x.sent \in now - Late .. now
    <3>1. CASE d.type = "GREY" /\ GreyUpdate(d.to, d.ip, FALSE, rest)
      BY <1>3, <2>1, <3>1, GreyUpdateType
    <3>2. CASE d.type # "GREY" /\ TwUpdate(d) /\ net' = rest /\ UNCHANGED tuples
      <4>1. hosts' \in [Host -> [Ip -> Entry]]
        <5>1. CASE d.expire >= now
          <6>1. PICK life \in Nat : d.expire = now + life
            <7>1. d.expire - now \in Nat /\ d.expire = now + (d.expire - now)
              BY <1>t, <2>1, <5>1
            <7>2. QED  BY <7>1
          <6>2. TwEntry(hosts[d.to][d.ip], d.type = "TRAPPED", now, d.expire) \in Entry
            <7>1. hosts[d.to][d.ip] \in Entry /\ (d.type = "TRAPPED") \in BOOLEAN
              BY <2>1 DEF TypeOK
            <7>2. TwEntry(hosts[d.to][d.ip], d.type = "TRAPPED", now, now + life) \in Gdata
              BY <1>t, <7>1, EntryTypes, Zenon
            <7>3. QED  BY <6>1, <7>2 DEF Entry
          <6>3. hosts' = [hosts EXCEPT ![d.to][d.ip] =
                           TwEntry(hosts[d.to][d.ip], d.type = "TRAPPED", now, d.expire)]
            BY <3>2, <5>1 DEF TwUpdate, SetHost
          <6>4. hosts \in [Host -> [Ip -> Entry]]  BY DEF TypeOK
          <6>5. QED  BY <2>1, <6>2, <6>3, <6>4, PutEntry, Zenon
        <5>2. CASE ~(d.expire >= now)
          BY <3>2, <5>2 DEF TwUpdate, TypeOK
        <5>3. QED  BY <5>1, <5>2
      <4>2. QED  BY <1>3, <3>2, <4>1 DEF TypeOK
    <3>3. QED  BY <1>3, <3>1, <3>2 DEF SyncRecv
  <2>3. QED  BY <1>3, <2>2 DEF SyncRecv, TypeOK, tables, client
<1>4. ASSUME NEW d \in net, Lose(d) PROVE TypeOK'
  <2>1. unheard' \subseteq Ip
    BY <1>4, <1>n DEF Lose, TypeOK, Datagram
  <2>2. faults' \in 0 .. MaxFaults
    BY <1>4 DEF Lose, Fault, TypeOK
  <2>3. QED  BY <1>4, <2>1, <2>2 DEF Lose, TypeOK, db, tables, client
<1>5. ASSUME NEW h \in Host, Scan(h) PROVE TypeOK'
  <2>1. \A ip \in Ip : Passed(tuples[h][ip], now) => Promoted(tuples[h][ip], now) \in Entry
    <3> SUFFICES ASSUME NEW ip \in Ip, Passed(tuples[h][ip], now)
                 PROVE  Promoted(tuples[h][ip], now) \in Entry
      OBVIOUS
    <3>1. tuples[h][ip] \in Entry  BY DEF TypeOK
    <3>2. tuples[h][ip] \in Gdata  BY <1>t, <3>1, PassedBeforeExpiry
    <3>3. tuples[h][ip] # NoEntry  BY <3>2, NoEntryAssumption
    <3>4. QED  BY <1>t, <3>1, <3>3, EntryTypes DEF Entry
  <2>2. hosts' \in [Host -> [Ip -> Entry]]
    BY <1>5, <2>1 DEF Scan, TypeOK, Entry
  <2>3. tuples' \in [Host -> [Ip -> Entry]]
    BY <1>5 DEF Scan, TypeOK, Entry
  <2>4. pf' \in [Host -> SUBSET Ip] /\ traps' \in [Host -> SUBSET Ip] /\ unheard' \subseteq Ip
    BY <1>5 DEF Scan, TypeOK
  <2>5. QED  BY <1>5, <2>2, <2>3, <2>4 DEF Scan, TypeOK, client
<1>6. ASSUME NEW h \in Host, Crash(h) PROVE TypeOK'
  <2>1. faults' \in 0 .. MaxFaults  BY <1>6 DEF Crash, TypeOK
  <2>2. QED  BY <1>6, <2>1 DEF Crash, TypeOK, db, client
<1>7. ASSUME NEW h \in Host, Restart(h) PROVE TypeOK'
  BY <1>7, <1>t DEF Restart, TypeOK, db, tables, client
<1>8. CASE Tick
  <2>1. now' \in 0 .. MaxTime  BY <1>8, <1>t DEF Tick
  <2>2. \A d \in net : d.sent \in now' - Late .. now'
    BY <1>8, <1>t DEF Tick, TypeOK
  <2>3. QED  BY <1>8, <2>1, <2>2 DEF Tick, TypeOK, db, tables, client
<1>10. CASE UNCHANGED vars
  BY <1>10 DEF vars, TypeOK, db, tables, client
<1>11. ASSUME NEW d \in net, Receive(d) \/ Duplicate(d) PROVE TypeOK'
  <2>1. SyncRecv(d, net \ {d}) \/ SyncRecv(d, net)
    BY <1>11 DEF Receive, Duplicate
  <2>2. net \ {d} \subseteq net /\ net \subseteq net  OBVIOUS
  <2>3. QED  BY <1>3, <2>1, <2>2
<1>12. QED
  BY <1>1, <1>2, <1>4, <1>5, <1>6, <1>7, <1>8, <1>10, <1>11 DEF Next

(* THEOREM: the types, for every network and every client: in particular a *)
(* peer's update never makes an entry that is neither white nor trapped,   *)
(* and no datagram is older than its delay.                                *)
THEOREM TypeCorrect == Spec => []TypeOK
<1>1. Init => TypeOK
  <2> SUFFICES ASSUME Init PROVE TypeOK  OBVIOUS
  <2>1. 0 \in 0 .. MaxTime /\ 0 \in 0 .. MaxFaults /\ Never \in Never .. MaxTime
    BY NetAssumption DEF Never
  <2>2. hosts \in [Host -> [Ip -> Entry]] /\ tuples \in [Host -> [Ip -> Entry]]
    BY DEF Init, Entry
  <2>3. QED  BY <2>1, <2>2 DEF Init, TypeOK
<1>2. QED  BY <1>1, TypeInductive, PTL DEF Spec

-----------------------------------------------------------------------------
(* Who is let pass has waited.  EarnedSomewhere is not inductive: the      *)
(* reason a host has is in its tables or in the datagrams to it.  A white  *)
(* entry and a WHITE datagram are of a patient client; a tuple or a GREY   *)
(* datagram is no older than the client's first contact, and what it may   *)
(* yet bring about the client has earned.                                  *)

HostsPatient ==
  \A h \in Host, ip \in Ip :
    hosts[h][ip] # NoEntry /\ hosts[h][ip].pcount = 0 => ip \in patient

TuplePatient(e, ip) ==
  e # NoEntry =>
    /\ first[ip] # Never /\ first[ip] <= e.first
    /\ e.pass < e.expire => ip \in patient
TuplesPatient == \A h \in Host, ip \in Ip : TuplePatient(tuples[h][ip], ip)

DatagramPatient(d) ==
  /\ d.type = "WHITE" => d.ip \in patient
  /\ d.type = "GREY" =>
       /\ first[d.ip] # Never /\ first[d.ip] <= d.sent
       /\ d.sent - first[d.ip] + Late > PassTime => d.ip \in patient
NetPatient == \A d \in net : DatagramPatient(d)

FirstIsPast == \A ip \in Ip : first[ip] <= now

EarnedInv == FirstIsPast /\ EarnedSomewhere /\ HostsPatient /\ TuplesPatient /\ NetPatient

(* LEMMA: a tuple entered or retried now is as EarnedInv wants it, if a    *)
(* client whose retry counts is patient.                                   *)
LEMMA EnteredIsEarned ==
  ASSUME NEW e \in Entry, NEW c \in Nat, NEW f \in Nat, f <= c, now = c,
         e # NoEntry => f <= e.first
  PROVE  /\ Entered(e) \in Gdata /\ f <= Entered(e).first
         /\ Entered(e).pass < Entered(e).expire =>
              e # NoEntry /\ (c - f > PassTime \/ e.pass < e.expire)
<1> USE TimesAssumption, NoEntryAssumption
<1>1. CASE e = NoEntry
  BY <1>1 DEF Entered, NewGrey, Gdata
<1>2. CASE e # NoEntry
  <2>1. e \in Gdata  BY <1>2 DEF Entry
  <2>2. Entered(e) = Retried(e, c, FALSE)  BY <1>2 DEF Entered
  <2>3. Retried(e, c, FALSE) \in Gdata /\ Retried(e, c, FALSE).first = e.first
        /\ Retried(e, c, FALSE).expire = e.expire
        /\ Retried(e, c, FALSE).pass = IF RetryPasses(e, c) THEN c ELSE e.pass
    BY <2>1 DEF Retried, Gdata
  <2>4. e.first \in Nat /\ e.pass \in Nat /\ e.expire \in Nat  BY <2>1 DEF Gdata
  <2>5. RetryPasses(e, c) => c - f > PassTime
    BY <1>2, <2>4 DEF RetryPasses
  <2>6. QED  BY <1>2, <2>2, <2>3, <2>4, <2>5
<1>3. QED  BY <1>1, <1>2

(* LEMMA: what a change of first and patient must keep: what was set, and  *)
(* who is patient.                                                         *)
LEMMA EarnedKept ==
  ASSUME TypeOK, EarnedInv,
         \A ip \in Ip : first[ip] # Never => first'[ip] = first[ip],
         patient \subseteq patient'
  PROVE  /\ \A h \in Host, ip \in Ip : hosts[h][ip] # NoEntry /\ hosts[h][ip].pcount = 0
               => ip \in patient'
         /\ \A h \in Host, ip \in Ip : TuplePatient(tuples[h][ip], ip)'
               \/ tuples'[h][ip] # tuples[h][ip]
         /\ \A d \in net : DatagramPatient(d)'
<1>1. \A d \in net : d \in Datagram  BY DEF TypeOK
<1>2. \A d \in net : DatagramPatient(d)'
  BY <1>1 DEF EarnedInv, NetPatient, DatagramPatient, Datagram
<1>3. \A h \in Host, ip \in Ip : TuplePatient(tuples[h][ip], ip)'
        \/ tuples'[h][ip] # tuples[h][ip]
  BY DEF EarnedInv, TuplesPatient, TuplePatient
<1>4. QED  BY <1>2, <1>3 DEF EarnedInv, HostsPatient

(* LEMMA: greyupdate, for a client of this host or for a peer's datagram.  *)
LEMMA GreyUpdateEarned ==
  ASSUME TypeOK, EarnedInv, NEW h \in Host, NEW ip \in Ip, NEW local \in BOOLEAN,
         NEW other, other \subseteq net, GreyUpdate(h, ip, local, other),
         \A q \in Ip : first[q] # Never => first'[q] = first[q],
         patient \subseteq patient', pf' = pf, FirstIsPast',
         first'[ip] \in Nat, first'[ip] <= now,
         now - first'[ip] > PassTime => ip \in patient',
         local /\ now - first'[ip] + Late > PassTime => ip \in patient'
  PROVE  EarnedInv'
<1> DEFINE e == tuples[h][ip]
<1>1. now \in Nat /\ now + TrapExp \in Nat /\ 0 \in Nat
  BY TimesAssumption, NetAssumption DEF TypeOK
<1>2. e \in Entry  BY DEF TypeOK
<1>3. first'[ip] # Never  BY DEF Never
<1>4. EarnedSomewhere'
  BY DEF EarnedInv, EarnedSomewhere
<1>5. HostsPatient'
  <2>1. CASE hosts' = [hosts EXCEPT ![h][ip] = TrapEntry(h, ip)]
    <3>1. TrapEntry(h, ip) \in Entry /\ TrapEntry(h, ip).pcount = -1
      BY TrapEntryType
    <3>2. hosts \in [Host -> [Ip -> Entry]]  BY DEF TypeOK
    <3>3. \A k \in Host, q \in Ip : hosts'[k][q] = hosts[k][q] \/ hosts'[k][q].pcount = -1
      BY <2>1, <3>1, <3>2, PutEntry
    <3>4. QED  BY <3>3, EarnedKept DEF HostsPatient
  <2>2. CASE hosts' = hosts
    BY <2>2, EarnedKept DEF HostsPatient
  <2>3. QED  BY <2>1, <2>2, GreyUpdateDoes
<1>6. TuplesPatient'
  <2>1. CASE tuples' = [tuples EXCEPT ![h][ip] = Entered(e)]
    <3>1. e # NoEntry => first'[ip] <= e.first /\ (e.pass < e.expire => ip \in patient)
      BY DEF EarnedInv, TuplesPatient, TuplePatient
    <3>2. /\ Entered(e) \in Gdata /\ first'[ip] <= Entered(e).first
          /\ Entered(e).pass < Entered(e).expire =>
               e # NoEntry /\ (now - first'[ip] > PassTime \/ e.pass < e.expire)
      BY <1>1, <1>2, <3>1, EnteredIsEarned
    <3>3. Entered(e).pass < Entered(e).expire => ip \in patient'
      BY <3>1, <3>2
    <3>4. tuples \in [Host -> [Ip -> Entry]] /\ Entered(e) \in Entry
      BY <3>2 DEF TypeOK, Entry
    <3>5. tuples'[h][ip] = Entered(e)
      BY <2>1, <3>4, PutEntry
    <3>6. \A k \in Host, q \in Ip : k # h \/ q # ip => tuples'[k][q] = tuples[k][q]
      BY <2>1, <3>4, PutEntry
    <3>7. TuplePatient(tuples[h][ip], ip)'
      BY <1>3, <3>2, <3>3, <3>5 DEF TuplePatient
    <3>8. QED
      <4> SUFFICES ASSUME NEW k \in Host, NEW q \in Ip
                   PROVE  TuplePatient(tuples[k][q], q)'
        BY DEF TuplesPatient
      <4>1. CASE k = h /\ q = ip  BY <3>7, <4>1
      <4>2. CASE k # h \/ q # ip  BY <3>6, <4>2, EarnedKept
      <4>3. QED  BY <4>1, <4>2
  <2>2. CASE tuples' = tuples
    BY <2>2, EarnedKept DEF TuplesPatient
  <2>3. QED  BY <2>1, <2>2, GreyUpdateDoes
<1>7. NetPatient'
  <2>1. \A d \in other : DatagramPatient(d)'  BY EarnedKept
  <2>2. \A d \in Sent(h, "TRAPPED", ip, now + TrapExp) : DatagramPatient(d)'
    BY <1>1, SentType DEF DatagramPatient
  <2>3. local => \A d \in Sent(h, "GREY", ip, 0) : DatagramPatient(d)'
    <3>1. \A d \in Sent(h, "GREY", ip, 0) : d.sent = now /\ d.type = "GREY" /\ d.ip = ip
      BY <1>1, SentType
    <3>2. QED  BY <1>3, <3>1 DEF DatagramPatient
  <2>4. \/ net' = other \cup (IF local THEN Sent(h, "TRAPPED", ip, now + TrapExp) ELSE {})
        \/ net' = other \cup (IF local THEN Sent(h, "GREY", ip, 0) ELSE {})
    BY GreyUpdateDoes
  <2>5. QED  BY <2>1, <2>2, <2>3, <2>4 DEF NetPatient
<1>8. QED  BY <1>4, <1>5, <1>6, <1>7 DEF EarnedInv

(* LEMMA: every step keeps it.                                             *)
LEMMA EarnedInductive == TypeOK /\ EarnedInv /\ [Next]_vars => EarnedInv'
<1> SUFFICES ASSUME TypeOK, EarnedInv, [Next]_vars PROVE EarnedInv'  OBVIOUS
<1> USE TimesAssumption, NetAssumption, HostAssumption
<1>t. now \in Nat /\ Late \in Nat /\ PassTime \in Nat  BY DEF TypeOK
<1>n. \A d \in net : d \in Datagram  BY DEF TypeOK
(* A step that leaves the tables and the clients alone, and sends nothing. *)
<1>k. ASSUME UNCHANGED <<hosts, tuples, first, patient>>, net' \subseteq net,
             FirstIsPast', \A h \in Host : pf'[h] \subseteq pf[h]
      PROVE  EarnedInv'
  BY <1>k DEF EarnedInv, EarnedSomewhere, HostsPatient, TuplesPatient, TuplePatient,
              NetPatient, DatagramPatient
<1>1. ASSUME NEW h \in Host, NEW ip \in Ip, Contact(h, ip) PROVE EarnedInv'
  <2>1. /\ first' = [first EXCEPT ![ip] = IF @ = Never THEN now ELSE @]
        /\ patient' = IF now - first'[ip] + Late > PassTime THEN patient \cup {ip} ELSE patient
        /\ pf' = pf
    BY <1>1 DEF Contact, tables
  <2>2. \A q \in Ip : first[q] # Never => first'[q] = first[q]
    BY <2>1 DEF TypeOK
  <2>3. patient \subseteq patient'  BY <2>1
  <2>4. first'[ip] \in Nat /\ first'[ip] <= now
    <3>1. first[ip] \in Never .. MaxTime  BY DEF TypeOK
    <3>2. first[ip] # Never => first[ip] <= now
      BY DEF FirstIsPast, EarnedInv
    <3>3. first'[ip] = IF first[ip] = Never THEN now ELSE first[ip]
      BY <2>1 DEF TypeOK
    <3>4. QED  BY <1>t, <3>1, <3>2, <3>3 DEF Never
  <2>5. now - first'[ip] + Late > PassTime => ip \in patient'
    BY <2>1
  <2>6. FirstIsPast'
    <3>1. now' = now  BY <1>1 DEF Contact
    <3>2. \A q \in Ip : q # ip => first'[q] = first[q]
      BY <2>1 DEF TypeOK
    <3>3. QED  BY <2>4, <3>1, <3>2 DEF EarnedInv, FirstIsPast
  <2>7. EarnedSomewhere'
    BY <2>1, <2>3 DEF EarnedInv, EarnedSomewhere
  <2>8. CASE Passes(h, ip)
    <3>1. ip \in patient  BY <2>8 DEF Passes, EarnedInv, EarnedSomewhere
    <3>2. HostsPatient'
      <4>1. SeenEntry(hosts[h][ip], now) \in Entry
        <5>1. hosts[h][ip] \in Entry /\ 0 \in Nat /\ TRUE \in BOOLEAN  BY DEF TypeOK
        <5>2. SeenEntry(hosts[h][ip], now) \in Gdata  BY <1>t, <5>1, EntryTypes
        <5>3. QED  BY <5>2 DEF Entry
      <4>2. hosts \in [Host -> [Ip -> Entry]]  BY DEF TypeOK
      <4>3. \A k \in Host, q \in Ip : k # h \/ q # ip => hosts'[k][q] = hosts[k][q]
        BY <2>8, <4>1, <4>2, PutEntry DEF Passes, SetHost
      <4>4. QED  BY <2>2, <2>3, <3>1, <4>3, EarnedKept DEF HostsPatient
    <3>3. TuplesPatient'
      BY <2>2, <2>3, <2>8, EarnedKept DEF Passes, TuplesPatient
    <3>4. NetPatient'
      <4>1. \A d \in net : DatagramPatient(d)'  BY <2>2, <2>3, EarnedKept
      <4>2. now + WHITEEXP \in Nat  BY <1>t
      <4>3. \A d \in Sent(h, "WHITE", ip, now + WHITEEXP) : d.type = "WHITE" /\ d.ip = ip
        BY <1>t, <4>2, SentType
      <4>4. \A d \in Sent(h, "WHITE", ip, now + WHITEEXP) : DatagramPatient(d)'
        BY <2>3, <3>1, <4>3 DEF DatagramPatient
      <4>5. QED  BY <2>8, <4>1, <4>4 DEF Passes, NetPatient
    <3>5. QED  BY <2>6, <2>7, <3>2, <3>3, <3>4 DEF EarnedInv
  <2>9. CASE Stutters(h, ip)
    BY <2>2, <2>3, <2>6, <2>7, <2>9, EarnedKept
    DEF Stutters, db, EarnedInv, HostsPatient, TuplesPatient, NetPatient
  <2>10. CASE Reported(h, ip)
    <3>1. GreyUpdate(h, ip, TRUE, net)  BY <2>10 DEF Reported
    <3>2. now - first'[ip] > PassTime => ip \in patient'
      BY <1>t, <2>4, <2>5
    <3>3. QED
      BY <2>1, <2>2, <2>3, <2>4, <2>5, <2>6, <3>1, <3>2, GreyUpdateEarned
  <2>11. QED  BY <1>1, <2>8, <2>9, <2>10 DEF Contact
<1>2. ASSUME NEW h \in Host, NEW ip \in Ip, ContactFails(h, ip) PROVE EarnedInv'
  BY <1>2, <1>k DEF ContactFails, db, tables, EarnedInv, FirstIsPast
<1>3. ASSUME NEW d \in net, NEW rest, rest \subseteq net, SyncRecv(d, rest) PROVE EarnedInv'
  <2>1. d.to \in Host /\ d.ip \in Ip /\ d \in Datagram /\ d.sent \in now - Late .. now
        /\ d.sent \in Nat
    BY <1>n DEF Datagram, TypeOK
  <2>2. UNCHANGED <<now, pf, first, patient>>
    BY <1>3 DEF SyncRecv, tables, client
  <2>3. FirstIsPast' /\ EarnedSomewhere'
    BY <2>2 DEF EarnedInv, FirstIsPast, EarnedSomewhere
  <2>4. DatagramPatient(d)  BY DEF EarnedInv, NetPatient
  <2>5. CASE d.type = "GREY" /\ GreyUpdate(d.to, d.ip, FALSE, rest)
    <3>1. /\ first[d.ip] # Never /\ first[d.ip] <= d.sent
          /\ d.sent - first[d.ip] + Late > PassTime => d.ip \in patient
      BY <2>4, <2>5 DEF DatagramPatient
    <3>2. first[d.ip] \in Nat /\ first[d.ip] <= now
      BY <1>t, <2>1, <3>1 DEF TypeOK, Never
    <3>3. now - first[d.ip] > PassTime => d.ip \in patient
      BY <1>t, <2>1, <3>1, <3>2
    <3>4. QED  BY <1>3, <2>1, <2>2, <2>3, <2>5, <3>2, <3>3, GreyUpdateEarned
  <2>6. CASE d.type # "GREY" /\ TwUpdate(d) /\ net' = rest /\ UNCHANGED tuples
    <3>1. HostsPatient'
      <4>1. CASE d.expire >= now
        <5> DEFINE x == TwEntry(hosts[d.to][d.ip], d.type = "TRAPPED", now, d.expire)
        <5>1. hosts' = [hosts EXCEPT ![d.to][d.ip] = x]
          BY <2>6, <4>1 DEF TwUpdate, SetHost
        <5>2. hosts[d.to][d.ip] \in Entry /\ d.expire \in Nat
          BY <2>1 DEF TypeOK, Datagram
        <5>3. x \in Entry /\ (x.pcount = 0 => d.type = "WHITE")
          BY <1>t, <2>1, <2>6, <5>2 DEF TwEntry, Entry, Gdata, Datagram
        <5> HIDE DEF x
        <5>4. hosts \in [Host -> [Ip -> Entry]]  BY DEF TypeOK
        <5>5. /\ hosts'[d.to][d.ip] = x
              /\ \A k \in Host, q \in Ip : k # d.to \/ q # d.ip => hosts'[k][q] = hosts[k][q]
          BY <2>1, <5>1, <5>3, <5>4, PutEntry
        <5>6. x.pcount = 0 => d.ip \in patient'
          BY <2>2, <2>4, <5>3 DEF DatagramPatient
        <5>7. QED  BY <2>2, <5>5, <5>6 DEF EarnedInv, HostsPatient
      <4>2. CASE ~(d.expire >= now)
        BY <2>2, <2>6, <4>2 DEF TwUpdate, EarnedInv, HostsPatient
      <4>3. QED  BY <4>1, <4>2
    <3>2. TuplesPatient' /\ NetPatient'
      BY <1>3, <2>2, <2>6 DEF EarnedInv, TuplesPatient, TuplePatient, NetPatient, DatagramPatient
    <3>3. QED  BY <2>3, <3>1, <3>2 DEF EarnedInv
  <2>7. QED  BY <1>3, <2>5, <2>6 DEF SyncRecv
<1>4. ASSUME NEW d \in net, Lose(d) PROVE EarnedInv'
  BY <1>4, <1>k DEF Lose, db, tables, client, EarnedInv, FirstIsPast
<1>5. ASSUME NEW h \in Host, Scan(h) PROVE EarnedInv'
  <2>1. UNCHANGED <<now, first, patient, net>>
    BY <1>5 DEF Scan, client
  <2>2. \A ip \in Ip : Passed(tuples[h][ip], now) => ip \in patient
    <3> SUFFICES ASSUME NEW ip \in Ip, Passed(tuples[h][ip], now) PROVE ip \in patient
      OBVIOUS
    <3>1. tuples[h][ip] \in Entry  BY DEF TypeOK
    <3>2. tuples[h][ip] \in Gdata /\ tuples[h][ip].pass < tuples[h][ip].expire
      BY <1>t, <3>1, PassedBeforeExpiry
    <3>3. QED  BY <3>2, NoEntryAssumption DEF EarnedInv, TuplesPatient, TuplePatient
  <2>3. \A ip \in Ip : Passed(hosts[h][ip], now) => ip \in patient
    <3> SUFFICES ASSUME NEW ip \in Ip, Passed(hosts[h][ip], now) PROVE ip \in patient
      OBVIOUS
    <3>1. hosts[h][ip] \in Entry  BY DEF TypeOK
    <3>2. hosts[h][ip] \in Gdata /\ hosts[h][ip].pcount = 0
      BY <1>t, <3>1, PassedBeforeExpiry
    <3>3. QED  BY <3>2, NoEntryAssumption DEF EarnedInv, HostsPatient
  <2>4. EarnedSomewhere'
    BY <1>5, <2>1, <2>2, <2>3 DEF Scan, EarnedInv, EarnedSomewhere, TypeOK
  <2>5. HostsPatient'
    BY <1>5, <2>1, <2>2 DEF Scan, EarnedInv, HostsPatient, TypeOK
  <2>6. TuplesPatient'
    BY <1>5, <2>1 DEF Scan, EarnedInv, TuplesPatient, TuplePatient, TypeOK
  <2>7. FirstIsPast' /\ NetPatient'
    BY <2>1 DEF EarnedInv, FirstIsPast, NetPatient, DatagramPatient
  <2>8. QED  BY <2>4, <2>5, <2>6, <2>7 DEF EarnedInv
<1>6. ASSUME NEW h \in Host, Crash(h) PROVE EarnedInv'
  BY <1>6, <1>k DEF Crash, db, client, TypeOK, EarnedInv, FirstIsPast
<1>7. ASSUME NEW h \in Host, Restart(h) PROVE EarnedInv'
  BY <1>7, <1>k DEF Restart, db, tables, client, EarnedInv, FirstIsPast
<1>8. CASE Tick
  BY <1>t, <1>8, <1>k DEF Tick, db, tables, client, EarnedInv, FirstIsPast, TypeOK
<1>10. CASE UNCHANGED vars
  BY <1>10, <1>k DEF vars, db, tables, client, EarnedInv, FirstIsPast
<1>11. ASSUME NEW d \in net, Receive(d) \/ Duplicate(d) PROVE EarnedInv'
  <2>1. SyncRecv(d, net \ {d}) \/ SyncRecv(d, net)
    BY <1>11 DEF Receive, Duplicate
  <2>2. net \ {d} \subseteq net /\ net \subseteq net  OBVIOUS
  <2>3. QED  BY <1>3, <2>1, <2>2
<1>12. QED
  BY <1>1, <1>2, <1>4, <1>5, <1>6, <1>7, <1>8, <1>10, <1>11 DEF Next

(* THEOREM: whatever the network does, a host lets only those clients pass *)
(* that came back after the wait, less what a datagram may be late.        *)
THEOREM OnlyPatient == Spec => []EarnedSomewhere
<1>1. Init => EarnedInv
  <2> SUFFICES ASSUME Init PROVE EarnedInv  OBVIOUS
  <2>1. FirstIsPast
    <3>1. now = 0 /\ \A ip \in Ip : first[ip] = Never  BY DEF Init
    <3>2. Never <= 0  BY DEF Never
    <3>3. QED  BY <3>1, <3>2 DEF FirstIsPast
  <2>2. QED
    BY <2>1 DEF Init, EarnedInv, EarnedSomewhere, HostsPatient, TuplesPatient, TuplePatient, NetPatient
<1>2. EarnedInv => EarnedSomewhere  BY DEF EarnedInv
<1>3. QED  BY <1>1, <1>2, EarnedInductive, TypeCorrect, PTL DEF Spec

-----------------------------------------------------------------------------
(* Who is trapped is baited or was not heard of.  While a client goes from *)
(* host to host the low priority MX knows of it, or will, or one of the    *)
(* reasons of unheard has arisen; and no host ever tells it to trap        *)
(* somebody whose mail is not for a spamtrap.                              *)

Heard(ip) == tried[ip] # {} => tuples[LowMx][ip] # NoEntry \/ Excused(ip)
ToldOfBaited == \A d \in net : d.type = "TRAPPED" /\ d.to = LowMx => d.ip \in Baited
HeardInv == ToldOfBaited /\ \A ip \in Ip : Heard(ip)

(* LEMMA: what greyupdate does for a client whose mail is no bait: a host  *)
(* that is not the low priority MX traps nobody, it enters a tuple; for a  *)
(* client of its own it tells the low priority MX.                         *)
LEMMA GreyUpdateHeard ==
  ASSUME TypeOK, NEW h \in Host, NEW ip \in Ip \ Baited, NEW local \in BOOLEAN,
         NEW other, other \subseteq net, GreyUpdate(h, ip, local, other),
         h # LowMx \/ ~local
  PROVE  /\ hosts' = hosts
         /\ tuples'[h][ip] # NoEntry
         /\ \A k \in Host, q \in Ip : tuples[k][q] # NoEntry => tuples'[k][q] # NoEntry
         /\ other \subseteq net'
         /\ \A d \in net' \ other : d.type = "GREY"
         /\ local => UnderWay(ip)'
<1>1. ~Trap(h, ip, local)  BY DEF Trap, LowPrioTrap, Baited
<1>2. /\ tuples' = [tuples EXCEPT ![h][ip] = Entered(tuples[h][ip])] /\ hosts' = hosts
      /\ net' = other \cup (IF local THEN Sent(h, "GREY", ip, 0) ELSE {})
  BY <1>1, GreyUpdateDoes
<1>3. Entered(tuples[h][ip]) \in Gdata
  <2>1. tuples[h][ip] \in Entry /\ now \in Nat /\ FALSE \in BOOLEAN /\ 0 \in Nat
    BY NetAssumption DEF TypeOK
  <2>2. NewGrey(now) \in Gdata  BY <2>1, TimesAssumption DEF NewGrey, Gdata
  <2>3. tuples[h][ip] # NoEntry => Retried(tuples[h][ip], now, FALSE) \in Gdata
    BY <2>1, EntryTypes
  <2>4. QED  BY <2>2, <2>3 DEF Entered
<1>4. Entered(tuples[h][ip]) # NoEntry /\ Entered(tuples[h][ip]) \in Entry
  BY <1>3, NoEntryAssumption DEF Entry
<1>5. tuples \in [Host -> [Ip -> Entry]]  BY DEF TypeOK
<1>6. /\ tuples'[h][ip] # NoEntry
      /\ \A k \in Host, q \in Ip : k # h \/ q # ip => tuples'[k][q] = tuples[k][q]
  BY <1>2, <1>4, <1>5, PutEntry
<1>7. \A d \in Sent(h, "GREY", ip, 0) : d.type = "GREY"  BY DEF Sent
<1>8. local => UnderWay(ip)'
  <2>1. SUFFICES ASSUME local PROVE UnderWay(ip)'  OBVIOUS
  <2>2. LowMx \in Host \ {h}  BY <2>1, HostAssumption
  <2>3. [type |-> "GREY", to |-> LowMx, ip |-> ip, expire |-> 0, sent |-> now] \in net'
    BY <1>2, <2>1, <2>2 DEF Sent
  <2>4. QED  BY <2>3 DEF UnderWay
<1>9. QED  BY <1>2, <1>6, <1>7, <1>8

(* LEMMA: what greyupdate does for one client is nothing to the others, so *)
(* that of a baited client all is well.                                    *)
LEMMA GreyUpdateBaited ==
  ASSUME TypeOK, HeardInv, NEW h \in Host, NEW ip \in Ip, NEW local \in BOOLEAN, ip \in Baited,
         NEW other, other \subseteq net, \A d \in net \ other : d.ip = ip,
         GreyUpdate(h, ip, local, other), bait' = bait,
         \A q \in Ip : q # ip => tried'[q] = tried[q] /\ (q \in unheard' <=> q \in unheard)
  PROVE  HeardInv' /\ \A q \in Ip : Condemned(q) => Excused(q)
<1>1. Baited' = Baited  BY DEF Baited
<1>2. now \in Nat /\ now + TrapExp \in Nat /\ 0 \in Nat
  BY TimesAssumption, NetAssumption DEF TypeOK
<1>3. /\ \A d \in Sent(h, "TRAPPED", ip, now + TrapExp) : d.ip = ip
      /\ \A d \in Sent(h, "GREY", ip, 0) : d.ip = ip
  BY <1>2, SentType
<1>4. other \subseteq net' /\ \A d \in net' \ other : d.ip = ip
  BY <1>3, GreyUpdateDoes
<1>5. /\ hosts' = hosts \/ hosts' = [hosts EXCEPT ![h][ip] = TrapEntry(h, ip)]
      /\ tuples' = tuples \/ tuples' = [tuples EXCEPT ![h][ip] = Entered(tuples[h][ip])]
  BY GreyUpdateDoes
<1>6. \A k \in Host, q \in Ip :
        q # ip => hosts'[k][q] = hosts[k][q] /\ tuples'[k][q] = tuples[k][q]
  BY <1>5 DEF TypeOK
<1>7. ToldOfBaited'
  BY <1>1, <1>4 DEF HeardInv, ToldOfBaited
<1>8. \A q \in Ip : Heard(q)'
  <2> SUFFICES ASSUME NEW q \in Ip, q # ip PROVE Heard(q)'
    BY <1>1 DEF Heard, Excused
  <2>1. UnderWay(q) => UnderWay(q)'  BY <1>4 DEF UnderWay
  <2>2. tuples'[LowMx][q] = tuples[LowMx][q]  BY <1>6, HostAssumption
  <2>3. QED  BY <1>1, <2>1, <2>2 DEF HeardInv, Heard, Excused
<1>9. \A q \in Ip : Condemned(q) => Excused(q)
  BY <1>6, HostAssumption DEF Condemned, TrappedAt, Excused
<1>10. QED  BY <1>7, <1>8, <1>9 DEF HeardInv

(* LEMMA: every step keeps HeardInv, and condemns only with a reason.      *)
LEMMA HeardInductive ==
  TypeOK /\ HeardInv /\ [Next]_vars =>
    HeardInv' /\ \A ip \in Ip : Condemned(ip) => Excused(ip)
<1> DEFINE Just == \A ip \in Ip : Condemned(ip) => Excused(ip)
<1> SUFFICES ASSUME TypeOK, HeardInv, [Next]_vars PROVE HeardInv' /\ Just  OBVIOUS
<1> USE HostAssumption
<1>n. \A d \in net : d \in Datagram  BY DEF TypeOK
<1>b. bait' = bait /\ Baited' = Baited
  BY DEF Next, Contact, ContactFails, Receive, Duplicate, SyncRecv, Lose, Scan, Crash, Restart,
         Tick, vars, client, Baited
<1>j. (\A ip \in Ip : hosts'[LowMx][ip] = hosts[LowMx][ip] \/ hosts'[LowMx][ip] = NoEntry
                      \/ hosts'[LowMx][ip].pcount # -1 \/ ip \in Baited) => Just
  BY DEF Condemned, TrappedAt, Excused
<1> HIDE DEF Just
(* A step that leaves databases, clients and network alone.                *)
<1>k. ASSUME UNCHANGED <<hosts, tuples, net, tried, unheard>> PROVE HeardInv' /\ Just
  <2>1. HeardInv'
    BY <1>b, <1>k DEF HeardInv, ToldOfBaited, Heard, Excused, UnderWay
  <2>2. QED  BY <1>j, <1>k, <2>1
<1>1. ASSUME NEW h \in Host, NEW ip \in Ip, Contact(h, ip) PROVE HeardInv' /\ Just
  <2>1. /\ h = LowMx => tried[ip] = Other
        /\ tried' = [tried EXCEPT ![ip] = IF h = LowMx THEN {} ELSE @ \cup {h}]
        /\ unheard' = IF h = LowMx THEN unheard \ {ip}
                      ELSE IF ip \in traps[h] \cup pf[h] THEN unheard \cup {ip}
                      ELSE unheard
    BY <1>1 DEF Contact, Attempt
  <2>2. /\ \A q \in Ip : q # ip => tried'[q] = tried[q] /\ (q \in unheard' <=> q \in unheard)
        /\ h = LowMx => tried'[ip] = {}
    BY <2>1 DEF TypeOK
  <2>3. CASE Passes(h, ip)
    <3>1. SeenEntry(hosts[h][ip], now) \in Entry /\ SeenEntry(hosts[h][ip], now).pcount = 0
      <4>1. hosts[h][ip] \in Entry /\ 0 \in Nat /\ TRUE \in BOOLEAN /\ now \in Nat
        BY NetAssumption DEF TypeOK
      <4>2. SeenEntry(hosts[h][ip], now) \in Gdata  BY <4>1, EntryTypes
      <4>3. SeenEntry(hosts[h][ip], now).pcount = 0
        BY <4>1 DEF SeenEntry, Entry, Gdata
      <4>4. QED  BY <4>2, <4>3 DEF Entry
    <3>2. hosts \in [Host -> [Ip -> Entry]]  BY DEF TypeOK
    <3>3. \A q \in Ip : hosts'[LowMx][q] = hosts[LowMx][q] \/ hosts'[LowMx][q].pcount = 0
      BY <2>3, <3>1, <3>2, PutEntry DEF Passes, SetHost
    <3>4. ToldOfBaited'
      <4>1. \A d \in Sent(h, "WHITE", ip, now + WHITEEXP) : d.type = "WHITE"  BY DEF Sent
      <4>2. QED  BY <1>b, <2>3, <4>1 DEF Passes, HeardInv, ToldOfBaited
    <3>5. \A q \in Ip : Heard(q)'
      <4>1. tuples' = tuples /\ net \subseteq net' /\ ip \in pf[h]
        BY <2>3 DEF Passes
      <4>2. h # LowMx => ip \in unheard'  BY <2>1, <4>1
      <4>3. QED  BY <1>b, <2>2, <4>1, <4>2 DEF HeardInv, Heard, Excused, UnderWay
    <3>6. QED  BY <1>j, <3>3, <3>4, <3>5 DEF HeardInv
  <2>4. CASE Stutters(h, ip)
    <3>1. UNCHANGED <<hosts, tuples, net>> /\ ip \in traps[h]
      BY <2>4 DEF Stutters, db
    <3>2. h # LowMx => ip \in unheard'  BY <2>1, <3>1
    <3>3. HeardInv'
      BY <1>b, <2>2, <3>1, <3>2 DEF HeardInv, ToldOfBaited, Heard, Excused, UnderWay
    <3>4. QED  BY <1>j, <3>1, <3>3
  <2>5. CASE Reported(h, ip)
    <3>1. GreyUpdate(h, ip, TRUE, net) /\ ip \notin traps[h] \cup pf[h]
      BY <2>5 DEF Reported
    <3>0. CASE ip \in Baited
      <4>1. net \subseteq net /\ net \ net = {}  OBVIOUS
      <4>2. HeardInv' /\ \A q \in Ip : Condemned(q) => Excused(q)
        BY <1>b, <2>2, <3>0, <3>1, <4>1, GreyUpdateBaited
      <4>3. QED  BY <4>2 DEF Just
    <3>2. CASE h # LowMx /\ ip \notin Baited
      <4>1. /\ hosts' = hosts /\ net \subseteq net'
            /\ \A q \in Ip : tuples[LowMx][q] # NoEntry => tuples'[LowMx][q] # NoEntry
            /\ \A d \in net' \ net : d.type = "GREY"
            /\ UnderWay(ip)'
        BY <3>1, <3>2, GreyUpdateHeard
      <4>2. ToldOfBaited'
        BY <1>b, <4>1 DEF HeardInv, ToldOfBaited
      <4>3. \A q \in Ip : Heard(q)'
        BY <1>b, <2>2, <4>1 DEF HeardInv, Heard, Excused, UnderWay
      <4>4. QED  BY <1>j, <4>1, <4>2, <4>3 DEF HeardInv
    <3>3. CASE h = LowMx /\ ip \notin Baited
      <4>1. tried[ip] # {}  BY <2>1, <3>3 DEF Other
      <4>0. \/ /\ Trap(h, ip, TRUE)
               /\ hosts' = [hosts EXCEPT ![h][ip] = TrapEntry(h, ip)] /\ tuples' = tuples
               /\ net' = net \cup Sent(h, "TRAPPED", ip, now + TrapExp)
            \/ /\ ~Trap(h, ip, TRUE) /\ hosts' = hosts
               /\ tuples' = [tuples EXCEPT ![h][ip] = Entered(tuples[h][ip])]
               /\ net' = net \cup Sent(h, "GREY", ip, 0)
        <5>1. CASE Trap(h, ip, TRUE)
          BY <3>1, <5>1 DEF GreyUpdate, Told, SetHost
        <5>2. CASE ~Trap(h, ip, TRUE)
          BY <3>1, <5>2 DEF GreyUpdate, Told, SetTuple
        <5>3. QED  BY <5>1, <5>2
      <4>2. /\ net' \subseteq net \cup Sent(h, "TRAPPED", ip, now + TrapExp) \cup Sent(h, "GREY", ip, 0)
            /\ net \subseteq net'
        BY <4>0
      <4>3. ToldOfBaited'
        <5>1. \A d \in Sent(h, "TRAPPED", ip, now + TrapExp) : d.to # LowMx
          BY <3>3 DEF Sent
        <5>2. \A d \in Sent(h, "GREY", ip, 0) : d.type = "GREY"
          BY DEF Sent
        <5>3. QED  BY <1>b, <4>2, <5>1, <5>2 DEF HeardInv, ToldOfBaited
      <4>4. tuples \in [Host -> [Ip -> Entry]] /\ hosts \in [Host -> [Ip -> Entry]]
        BY DEF TypeOK
      <4>5. /\ \A q \in Ip : q # ip => hosts'[LowMx][q] = hosts[LowMx][q]
            /\ \A q \in Ip : q # ip => tuples'[LowMx][q] = tuples[LowMx][q]
            /\ ~Trap(h, ip, TRUE) => hosts' = hosts
        <5>1. CASE /\ Trap(h, ip, TRUE) /\ tuples' = tuples
                   /\ hosts' = [hosts EXCEPT ![h][ip] = TrapEntry(h, ip)]
          BY <3>3, <4>4, <5>1
        <5>2. CASE /\ ~Trap(h, ip, TRUE) /\ hosts' = hosts
                   /\ tuples' = [tuples EXCEPT ![h][ip] = Entered(tuples[h][ip])]
          BY <3>3, <4>4, <5>2
        <5>3. QED  BY <4>0, <5>1, <5>2
      <4>6. \A q \in Ip : Heard(q)'
        BY <1>b, <2>2, <3>3, <4>2, <4>5 DEF HeardInv, Heard, Excused, UnderWay
      <4>7. Trap(h, ip, TRUE) => Excused(ip)
        <5>1. Trap(h, ip, TRUE) => tuples[LowMx][ip] = NoEntry
          BY <3>3 DEF Trap, Baited
        <5>2. QED  BY <4>1, <5>1 DEF HeardInv, Heard
      <4>8. Just  BY <4>5, <4>7 DEF Just, Condemned, TrappedAt
      <4>9. QED  BY <4>3, <4>6, <4>8 DEF HeardInv
    <3>4. QED  BY <3>0, <3>2, <3>3
  <2>6. QED  BY <1>1, <2>3, <2>4, <2>5 DEF Contact
<1>2. ASSUME NEW h \in Host, NEW ip \in Ip, ContactFails(h, ip) PROVE HeardInv' /\ Just
  <2>1. UNCHANGED <<hosts, tuples, net>>
    BY <1>2 DEF ContactFails, db
  <2>2. /\ \A q \in Ip : q # ip => tried'[q] = tried[q] /\ (q \in unheard' <=> q \in unheard)
        /\ tried'[ip] = {} \/ ip \in unheard'
    BY <1>2 DEF ContactFails, Attempt, TypeOK
  <2>3. HeardInv'
    BY <1>b, <2>1, <2>2 DEF HeardInv, ToldOfBaited, Heard, Excused, UnderWay
  <2>4. QED  BY <1>j, <2>1, <2>3
<1>3. ASSUME NEW d \in net, NEW rest, rest \in {net, net \ {d}}, SyncRecv(d, rest)
      PROVE  HeardInv' /\ Just
  <2>1. d.to \in Host /\ d.ip \in Ip /\ d \in Datagram  BY <1>n DEF Datagram
  <2>2. UNCHANGED <<tried, unheard>>  BY <1>3 DEF SyncRecv, client
  <2>3. rest \subseteq net /\ net \ rest \subseteq {d}  BY <1>3
  <2>7. CASE d.type = "GREY" /\ GreyUpdate(d.to, d.ip, FALSE, rest) /\ d.ip \in Baited
    <3>0. /\ \A x \in net \ rest : x.ip = d.ip
          /\ \A q \in Ip : tried'[q] = tried[q] /\ (q \in unheard' <=> q \in unheard)
          /\ FALSE \in BOOLEAN
      BY <2>2, <2>3
    <3>1. HeardInv' /\ \A q \in Ip : Condemned(q) => Excused(q)
      BY <1>b, <2>1, <2>3, <2>7, <3>0, GreyUpdateBaited
    <3>2. QED  BY <3>1 DEF Just
  <2>4. CASE d.type = "GREY" /\ GreyUpdate(d.to, d.ip, FALSE, rest) /\ d.ip \notin Baited
    <3>1. /\ hosts' = hosts
          /\ tuples'[d.to][d.ip] # NoEntry
          /\ \A q \in Ip : tuples[LowMx][q] # NoEntry => tuples'[LowMx][q] # NoEntry
          /\ rest \subseteq net'
          /\ \A x \in net' \ rest : x.type = "GREY"
      BY <2>1, <2>3, <2>4, GreyUpdateHeard
    <3>2. ToldOfBaited'
      BY <1>b, <2>3, <3>1 DEF HeardInv, ToldOfBaited
    <3>3. \A q \in Ip : UnderWay(q) => UnderWay(q)' \/ tuples'[LowMx][q] # NoEntry
      <4> SUFFICES ASSUME NEW q \in Ip, NEW x \in net, x.type = "GREY", x.ip = q, x.to = LowMx
                   PROVE  UnderWay(q)' \/ tuples'[LowMx][q] # NoEntry
        BY DEF UnderWay
      <4>1. CASE x = d  BY <3>1, <4>1
      <4>2. CASE x # d  BY <2>3, <3>1, <4>2 DEF UnderWay
      <4>3. QED  BY <4>1, <4>2
    <3>4. \A q \in Ip : Heard(q)'
      BY <1>b, <2>2, <3>1, <3>3 DEF HeardInv, Heard, Excused
    <3>5. QED  BY <1>j, <3>1, <3>2, <3>4 DEF HeardInv
  <2>5. CASE d.type # "GREY" /\ TwUpdate(d) /\ net' = rest /\ UNCHANGED tuples
    <3>1. ToldOfBaited'
      BY <1>b, <2>3, <2>5 DEF HeardInv, ToldOfBaited
    <3>2. \A q \in Ip : UnderWay(q) => UnderWay(q)'
      BY <2>3, <2>5 DEF UnderWay
    <3>3. \A q \in Ip : Heard(q)'
      BY <1>b, <2>2, <2>5, <3>2 DEF HeardInv, Heard, Excused
    <3>4. \A q \in Ip : \/ hosts'[LowMx][q] = hosts[LowMx][q] \/ hosts'[LowMx][q].pcount = 0
                        \/ q \in Baited
      <4> DEFINE x == TwEntry(hosts[d.to][d.ip], d.type = "TRAPPED", now, d.expire)
      <4>1. hosts' = hosts \/ hosts' = [hosts EXCEPT ![d.to][d.ip] = x]
        BY <2>5 DEF TwUpdate, SetHost
      <4>2. hosts \in [Host -> [Ip -> Entry]] /\ hosts[d.to][d.ip] \in Entry
        BY <2>1 DEF TypeOK
      <4>3. d.to = LowMx => x.pcount = 0 \/ d.ip \in Baited
        <5>1. d.to = LowMx => d.type # "TRAPPED" \/ d.ip \in Baited
          BY DEF HeardInv, ToldOfBaited
        <5>2. QED  BY <4>2, <5>1 DEF TwEntry, Entry, Gdata
      <4> HIDE DEF x
      <4>4. ASSUME hosts' = [hosts EXCEPT ![d.to][d.ip] = x], NEW q \in Ip
            PROVE  \/ hosts'[LowMx][q] = hosts[LowMx][q] \/ hosts'[LowMx][q].pcount = 0
                   \/ q \in Baited
        <5>1. CASE d.to = LowMx /\ d.ip = q
          <6>1. hosts'[d.to][d.ip] = x  BY <2>1, <4>2, <4>4
          <6>2. QED  BY <4>3, <5>1, <6>1
        <5>2. CASE d.to # LowMx \/ d.ip # q  BY <2>1, <4>2, <4>4, <5>2
        <5>3. QED  BY <5>1, <5>2
      <4>5. QED  BY <4>1, <4>4
    <3>5. QED  BY <1>j, <3>1, <3>3, <3>4 DEF HeardInv
  <2>6. QED  BY <1>3, <2>4, <2>5, <2>7 DEF SyncRecv
<1>4. ASSUME NEW d \in net, Lose(d) PROVE HeardInv' /\ Just
  <2>1. UNCHANGED <<hosts, tuples, tried>> /\ net' = net \ {d} /\ unheard \subseteq unheard'
        /\ (d.type = "GREY" /\ d.to = LowMx => d.ip \in unheard')
    BY <1>4 DEF Lose, db, client
  <2>2. \A q \in Ip : UnderWay(q) => UnderWay(q)' \/ q \in unheard'
    BY <2>1 DEF UnderWay
  <2>3. HeardInv'
    BY <1>b, <2>1, <2>2 DEF HeardInv, ToldOfBaited, Heard, Excused
  <2>4. QED  BY <1>j, <2>1, <2>3
<1>5. ASSUME NEW h \in Host, Scan(h) PROVE HeardInv' /\ Just
  <2>1. UNCHANGED <<net, tried>> /\ unheard \subseteq unheard'
    BY <1>5 DEF Scan, client
  <2>2. \A q \in Ip : tuples[LowMx][q] # NoEntry => tuples'[LowMx][q] # NoEntry \/ q \in unheard'
    BY <1>5 DEF Scan, TypeOK
  <2>3. HeardInv'
    BY <1>b, <2>1, <2>2 DEF HeardInv, ToldOfBaited, Heard, Excused, UnderWay
  <2>4. \A q \in Ip : \/ hosts'[LowMx][q] = hosts[LowMx][q] \/ hosts'[LowMx][q] = NoEntry
                      \/ hosts'[LowMx][q].pcount # -1
    <3>1. \A q \in Ip : Passed(tuples[h][q], now) => Promoted(tuples[h][q], now).pcount = 0
      <4> SUFFICES ASSUME NEW q \in Ip, Passed(tuples[h][q], now)
                   PROVE  Promoted(tuples[h][q], now).pcount = 0
        OBVIOUS
      <4>1. tuples[h][q] \in Entry /\ now \in Nat  BY NetAssumption DEF TypeOK
      <4>2. tuples[h][q] \in Gdata /\ tuples[h][q].pcount = 0
        BY <4>1, PassedBeforeExpiry
      <4>3. QED  BY <4>2 DEF Promoted, Gdata
    <3>2. \A q \in Ip : hosts'[h][q] = IF hosts[h][q] = NoEntry /\ Passed(tuples[h][q], now)
                                        THEN Promoted(tuples[h][q], now)
                                        ELSE IF Expired(hosts[h][q], now) THEN NoEntry ELSE hosts[h][q]
      BY <1>5 DEF Scan, TypeOK
    <3>3. h # LowMx => hosts'[LowMx] = hosts[LowMx]
      BY <1>5 DEF Scan, TypeOK
    <3>4. QED  BY <3>1, <3>2, <3>3
  <2>5. QED  BY <1>j, <2>3, <2>4
<1>6. ASSUME NEW h \in Host, Crash(h) PROVE HeardInv' /\ Just
  BY <1>6, <1>k DEF Crash, db, client
<1>7. ASSUME NEW h \in Host, Restart(h) PROVE HeardInv' /\ Just
  BY <1>7, <1>k DEF Restart, db, client
<1>8. CASE Tick
  BY <1>8, <1>k DEF Tick, db, client
<1>10. CASE UNCHANGED vars
  BY <1>10, <1>k DEF vars, db, client
<1>11. ASSUME NEW d \in net, Receive(d) \/ Duplicate(d) PROVE HeardInv' /\ Just
  <2>1. SyncRecv(d, net \ {d}) \/ SyncRecv(d, net)
    BY <1>11 DEF Receive, Duplicate
  <2>2. QED  BY <1>3, <2>1
<1>12. QED
  BY <1>1, <1>2, <1>4, <1>5, <1>6, <1>7, <1>8, <1>10, <1>11 DEF Next

(* THEOREM: the low priority MX traps a client that tries the other hosts  *)
(* first only if its mail is for a spamtrap of some host, one of them did  *)
(* not report it, or its report did not arrive, or not in time.            *)
THEOREM TrapsHaveReasons == Spec => TrappedForAReason
<1>1. Init => HeardInv
  BY DEF Init, HeardInv, ToldOfBaited, Heard, Excused
<1>2. TypeOK /\ HeardInv /\ [Next]_vars =>
        [\A ip \in Ip : Condemned(ip) => Excused(ip)]_vars
  BY HeardInductive
<1>3. TypeOK /\ HeardInv /\ [Next]_vars => HeardInv'
  BY HeardInductive
<1>4. QED  BY <1>1, <1>2, <1>3, TypeCorrect, PTL DEF Spec, TrappedForAReason
=============================================================================
