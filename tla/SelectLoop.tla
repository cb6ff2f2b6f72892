----------------------------- MODULE SelectLoop -----------------------------
(***************************************************************************)
(* The main loop of the jail (main, spamd.c): it closes connections that   *)
(* are overdue, builds the descriptor sets, waits in select, and calls the *)
(* handlers for what the sets say, accepting connections in between.  A    *)
(* new descriptor gets the lowest free number, which may be that of one    *)
(* that was closed a moment ago.  The sockets block, so a handler that is  *)
(* called too early holds up everybody.                                    *)
(*                                                                         *)
(* The listening sockets and pipes are open from the start, so their       *)
(* numbers are below those of Fd.  What a connection says is SmtpCon's     *)
(* matter; here it reads or writes since some time.  The loop is quick: no *)
(* second passes but in select or in a read that blocks.  A write is taken *)
(* to go through, a line to greypipe too (Processes has the pipe that is   *)
(* full), and accept to answer at once.                                    *)
(***************************************************************************)
EXTENDS Naturals, FiniteSets, FiniteSetsExt

CONSTANTS
  maxcon,     (* slots of the connection table                              *)
  Pipe,       (* trapfd and syncfd                                          *)
  MaxFd,      (* bound on descriptor numbers                                *)
  NFDBITS,    (* bits per word of a descriptor set                          *)
  MAXTIME,    (* seconds for one line in or out: 400 in the code            *)
  MaxTime     (* bound on the clock                                         *)

ASSUME BoundsAssumption ==
  /\ {maxcon, MaxFd, MaxTime} \subseteq Nat
  /\ {"s", "conflisten"} \cap Pipe = {}
  /\ {NFDBITS, MAXTIME} \subseteq Nat \ {0}

Fd == 1 .. MaxFd
None == 0     (* for a descriptor of -1 *)
Slot == 1 .. maxcon
Source == {"s", "conflisten"} \cup Pipe

VARIABLES
  now,
  t,           \* the jail's reading of the clock, one per round
  pc,          \* "top", "select", "clients", "accept", "config", "read", "pipes", "blocked"
  con,         \* the connection table
  conffd,
  fdsr, fdsw,  \* bits of the descriptor sets, those of Fd
  words,       \* words allocated for each of them
  got,         \* the sources among what select reported in this round
  waiting,     \* sources with something to read or to accept
  readable,    \* descriptors with something to read, or the end
  fresh        \* history: conffd was accepted in this round

sets == <<fdsr, fdsw, words, got>>
vars == <<now, t, pc, con, conffd, sets, waiting, readable, fresh>>

Closed == [fd |-> None, does |-> "nothing", since |-> 0]
Connection == [fd : Fd, does : {"read", "write"}, since : 0 .. MaxTime + 1]

Open(i) == con[i] # Closed
Reader(i) == con[i].does = "read"
Writer(i) == con[i].does = "write"
InUse == {con[i].fd : i \in Slot} \cup {conffd}
Free == Fd \ InUse
NewFd == Min(Free)
Word(fd) == fd \div NFDBITS

TypeOK ==
  /\ now \in 0 .. MaxTime /\ t \in 0 .. now
  /\ pc \in {"top", "select", "clients", "accept", "config", "read", "pipes", "blocked"}
  /\ con \in [Slot -> Connection \cup {Closed}]
  /\ \A i, j \in Slot : Open(i) /\ con[i].fd \in {con[j].fd, conffd} => i = j /\ con[i].fd # conffd
  /\ conffd \in Fd \cup {None}
  /\ \A fd \in fdsr \cup fdsw : fd \in Fd /\ Word(fd) < words
  /\ words \in 0 .. Word(MaxFd) + 1
  /\ got \subseteq Source /\ waiting \subseteq Source
  /\ readable \subseteq InUse \ {None}
  /\ fresh \in BOOLEAN

Init ==
  /\ now = 0 /\ t = 0 /\ pc = "top"
  /\ con = [i \in Slot |-> Closed] /\ conffd = None
  /\ fdsr = {} /\ fdsw = {} /\ words = 0 /\ got = {}
  /\ waiting = {} /\ readable = {} /\ fresh = FALSE

-----------------------------------------------------------------------------
(* The peers send, connect and go away at any time.  The jail notices in   *)
(* select and, of a configuration connection, in read: what they do at     *)
(* another time is as good as done then.                                   *)

PeerSends(fd) ==
  /\ pc \in {"select", "read", "blocked"}
  /\ fd \in InUse \ {None}
  /\ readable' = readable \cup {fd}
  /\ UNCHANGED <<now, t, pc, con, conffd, sets, waiting, fresh>>

Arrives(x) ==
  /\ pc = "select"
  /\ waiting' = waiting \cup {x}
  /\ UNCHANGED <<now, t, pc, con, conffd, sets, readable, fresh>>

(* writers is set by every connection that is to write, due or not: then   *)
(* select waits a second.  Fault variant: only by those that are due.      *)
WritersDue(i) == Writer(i) /\ con[i].since <= t
Writers(i) == Writer(i)
timer == \E i \in Slot : Writers(i)

Tick ==
  /\ now < MaxTime
  /\ \/ pc = "select" /\ (timer => now = t)
     \/ pc = "blocked"
  /\ now' = now + 1
  /\ UNCHANGED <<t, pc, con, conffd, sets, waiting, readable, fresh>>

-----------------------------------------------------------------------------
(* The top of the loop.  max is taken before the overdue are closed.  The  *)
(* sets grow when max does; otherwise only the words up to max are         *)
(* cleared, and what is left in fdsr behind them may be looked at.  A      *)
(* connection that is to write waits for its time to come.                 *)

Overdue(i) == Open(i) /\ con[i].since + MAXTIME <= now
max == Max(InUse)
Stale == {fd \in fdsr : Word(fd) > Word(max)}
Watched == {con[i].fd : i \in {j \in Slot : Reader(j)}} \cup ({conffd} \ {None})

(* howmany(max+1, NFDBITS); fault variant: howmany(max, NFDBITS).          *)
GrownShort == Max({words, (max + NFDBITS - 1) \div NFDBITS})
Grown == Max({words, Word(max) + 1})

Top ==
  /\ pc = "top" /\ UNCHANGED conffd
  /\ t' = now
  /\ con' = [i \in Slot |-> IF Overdue(i) THEN Closed ELSE con[i]]
  /\ readable' = readable \ {con[i].fd : i \in {j \in Slot : Overdue(j)}}
  /\ fdsr' = Stale \cup Watched'
  /\ fdsw' = {con'[i].fd : i \in {j \in Slot : Writer(j)' /\ con'[j].since <= now}}
  /\ words' = Grown
  /\ pc' = "select"
  /\ UNCHANGED <<now, got, waiting, fresh>>

(* select leaves the words behind max alone.  Whether the peer of a writer *)
(* has room for more is its own affair.  conflisten is in the set only     *)
(* while there is no configuration connection.                             *)
Asked == IF conffd = None THEN Source ELSE Source \ {"conflisten"}

SelectReturns ==
  /\ pc = "select"
  /\ got' = waiting \cap Asked
  /\ fdsr' = (fdsr \ Watched) \cup (Watched \cap readable)
  /\ fdsw' \in SUBSET fdsw
  /\ got' # {} \/ Watched \cap readable # {} \/ fdsw' # {}
  /\ pc' = "clients"
  /\ UNCHANGED <<now, t, con, conffd, words, waiting, readable, fresh>>

(* n is 0, or -1 with EINTR.  Fault variant: an interrupted select, which  *)
(* leaves the sets as they were asked, is taken for one that returned.     *)
SelectTimesOut ==
  /\ pc = "select" /\ timer /\ now > t
  /\ waiting \cap Asked = {} /\ Watched \cap readable = {}
  /\ pc' = "top"
  /\ UNCHANGED <<now, t, con, conffd, sets, waiting, readable, fresh>>
InterruptIsResult ==
  /\ pc = "select" /\ now > t
  /\ pc' = "clients"
  /\ UNCHANGED <<now, t, con, conffd, sets, waiting, readable, fresh>>
SelectInterrupted ==
  /\ pc = "select" /\ now > t
  /\ pc' = "top"
  /\ UNCHANGED <<now, t, con, conffd, sets, waiting, readable, fresh>>

-----------------------------------------------------------------------------
(* handler and handlew: what becomes of a connection.  A write may be put  *)
(* off by the stutter, which is a second.                                  *)

Writes == {[does |-> "write", since |-> t + stutter] : stutter \in {0, 1}}
Reads == {[does |-> "read", since |-> t]}
On(fd, next) == {[fd |-> fd, does |-> n.does, since |-> n.since] : n \in next}
Becomes(i, next) == On(con[i].fd, next) \cup {Closed}
Calls(i) == Reader(i) /\ con[i].fd \in fdsr

Outcomes(i) ==
  IF Calls(i) THEN Becomes(i, Writes \cup Reads) \cup {con[i]}
  ELSE IF Writer(i) /\ con[i].fd \in fdsw THEN Becomes(i, Writes \cup Reads)
  ELSE {con[i]}

Clients ==
  /\ pc = "clients"
  /\ \A i \in Slot : Calls(i) => con[i].fd \in readable
  /\ con' \in {c \in [Slot -> UNION {Outcomes(i) : i \in Slot}] :
                 \A i \in Slot : c[i] \in Outcomes(i)}
  /\ readable' = readable \ {con[i].fd : i \in {j \in Slot : Calls(j) \/ con'[j] = Closed}}
  /\ fdsw' = {}
  /\ pc' = "accept"
  /\ UNCHANGED <<now, t, conffd, fdsr, words, got, waiting, fresh>>

-----------------------------------------------------------------------------
(* Accepting.  A failure goes back to the top, past everything that        *)
(* follows.  A client that finds no slot is dropped.  Fault variant: then  *)
(* too the rest of the round is left out.                                  *)

FullSkipsTheRest ==
  /\ pc = "accept" /\ "s" \in got /\ Free # {}
  /\ IF \A i \in Slot : Open(i)
     THEN pc' = "top" /\ UNCHANGED con
     ELSE LET i == Min({j \in Slot : ~Open(j)}) IN
          /\ pc' = "config"
          /\ \E first \in On(NewFd, Writes) : con' = [con EXCEPT ![i] = first]
  /\ waiting' = waiting \ {"s"}
  /\ UNCHANGED <<now, t, conffd, sets, readable, fresh>>
AcceptClient ==
  /\ pc = "accept" /\ "s" \in got /\ Free # {}
  /\ IF \A i \in Slot : Open(i) THEN UNCHANGED con
     ELSE LET i == Min({j \in Slot : ~Open(j)}) IN
          \E first \in On(NewFd, Writes) : con' = [con EXCEPT ![i] = first]
  /\ waiting' = waiting \ {"s"}
  /\ pc' = "config"
  /\ UNCHANGED <<now, t, conffd, sets, readable, fresh>>

AcceptConfig ==
  /\ pc = "config" /\ "conflisten" \in got /\ Free # {}
  /\ conffd' \in {NewFd, None}
  /\ fresh' = (conffd' # None)
  /\ waiting' = waiting \ {"conflisten"}
  /\ pc' = "read"
  /\ UNCHANGED <<now, t, con, sets, readable>>

AcceptFails ==
  /\ \/ pc = "accept" /\ "s" \in got
     \/ pc = "config" /\ "conflisten" \in got
  /\ pc' = "top" /\ got' = {}
  /\ UNCHANGED <<now, t, con, conffd, fdsr, fdsw, words, waiting, readable, fresh>>

NoAccept ==
  /\ \/ pc = "accept" /\ "s" \notin got /\ pc' = "config"
     \/ pc = "config" /\ "conflisten" \notin got /\ pc' = "read"
  /\ UNCHANGED <<now, t, con, conffd, sets, waiting, readable, fresh>>

-----------------------------------------------------------------------------
(* do_config looks for conffd in the sets of this round's select, whose    *)
(* memory may end before it.                                               *)

IsSet(fd) == IF Word(fd) < words THEN {fd \in fdsr} ELSE BOOLEAN

(* One read, which ends the connection or leaves it; without memory there  *)
(* is not even a read.  Fault variant: do_config reads to the end.         *)
DoConfigLoops(ends) ==
  /\ conffd' = IF ends THEN None ELSE conffd
  /\ readable' = readable \ {conffd}
  /\ pc' = IF ends THEN "pipes" ELSE "blocked"
DoConfig(ends) ==
  /\ conffd' = IF ends THEN None ELSE conffd
  /\ readable' = readable \ {conffd}
  /\ pc' = "pipes"

Config(ends) ==
  /\ pc = "read" /\ conffd # None /\ TRUE \in IsSet(conffd)
  /\ conffd \in readable \/ ends
  /\ DoConfig(ends)
  /\ UNCHANGED <<now, t, con, sets, waiting, fresh>>

Block ==
  /\ pc = "read" /\ conffd # None /\ TRUE \in IsSet(conffd)
  /\ conffd \notin readable
  /\ pc' = "blocked"
  /\ UNCHANGED <<now, t, con, conffd, sets, waiting, readable, fresh>>

Unblock(ends) ==
  /\ pc = "blocked" /\ conffd \in readable
  /\ DoConfig(ends)
  /\ UNCHANGED <<now, t, con, sets, waiting, fresh>>

NoConfig ==
  /\ pc = "read"
  /\ conffd # None => FALSE \in IsSet(conffd)
  /\ pc' = "pipes"
  /\ UNCHANGED <<now, t, con, conffd, sets, waiting, readable, fresh>>

(* read_configline and sync_recv.                                          *)
Pipes ==
  /\ pc = "pipes"
  /\ waiting' = waiting \ (got \cap Pipe)
  /\ pc' = "top" /\ got' = {} /\ fresh' = FALSE
  /\ UNCHANGED <<now, t, con, conffd, fdsr, fdsw, words, readable>>

Loop ==
  \/ Top \/ SelectReturns \/ SelectTimesOut
  \/ Clients \/ AcceptClient \/ AcceptConfig \/ AcceptFails \/ NoAccept
  \/ \E ends \in BOOLEAN : Config(ends) \/ Unblock(ends)
  \/ Block \/ NoConfig \/ Pipes

Next ==
  \/ Loop \/ SelectInterrupted
  \/ \E fd \in Fd : PeerSends(fd)
  \/ \E x \in Source : Arrives(x)
  \/ Tick

Spec == Init /\ [][Next]_vars

(* The jail runs, and accept does not fail every time.  The peer of a      *)
(* configuration connection sends or goes away.                            *)
Fairness ==
  /\ WF_vars(Loop)
  /\ SF_vars(AcceptClient) /\ SF_vars(AcceptConfig)
  /\ WF_vars(pc = "blocked" /\ PeerSends(conffd))

FairSpec == Spec /\ Fairness

-----------------------------------------------------------------------------
(* Properties.                                                             *)

(* No read is made to wait by a descriptor that is not ready, with one     *)
(* exception: a configuration connection accepted in the same round, whose *)
(* number is still in the set from a connection this round closed, or from *)
(* a round before, or lies behind the memory of the set.                   *)
OnlyFreshBlocks ==
  /\ pc = "clients" => \A i \in Slot : Calls(i) => con[i].fd \in readable
  /\ pc = "blocked" => fresh

(* As long as somebody is to be written to, no connection outlives MAXTIME *)
(* by more than the second that select waits.  With readers only it may.   *)
Punctual ==
  pc = "select" /\ (\E i \in Slot : Writer(i)) =>
    \A i \in Slot : Open(i) => now <= con[i].since + MAXTIME

(* Whatever clients come and go, a full table and failing accepts and a    *)
(* configuration connection that takes its time do not keep the jail from  *)
(* its pipes: a line of trapped hosts, or a peer's update, is read.        *)
PipesAreServed ==
  \A x \in Pipe : x \in waiting ~> x \notin waiting
=============================================================================
