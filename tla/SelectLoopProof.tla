---------------------------- MODULE SelectLoopProof ----------------------------
(***************************************************************************)
(* Proofs about SelectLoop, for any number of slots and descriptors, any   *)
(* width of a word of the descriptor sets and any time-out.                *)
(***************************************************************************)
EXTENDS SelectLoop, WellFoundedInduction, TLAPS

(* LEMMA: a set of numbers has a least element.                            *)
LEMMA LeastExists ==
  ASSUME NEW S, S \subseteq Nat, S # {}
  PROVE  \E x \in S : \A y \in S : x <= y
<1>1. IsWellFoundedOn(OpToRel(<, Nat), Nat)  BY NatLessThanWellFounded
<1>2. PICK x \in S : \A y \in S : ~(<<y, x>> \in OpToRel(<, Nat))
  BY <1>1, WFMin
<1>3. ASSUME NEW y \in S PROVE x <= y
  <2>1. x \in Nat /\ y \in Nat /\ <<y, x>> \in Nat \X Nat  OBVIOUS
  <2>2. ~(<<y, x>>[1] < <<y, x>>[2])  BY <1>2, <2>1 DEF OpToRel
  <2>3. QED  BY <2>1, <2>2
<1>4. QED  BY <1>3

(* LEMMA: what Min chooses.                                                *)
LEMMA MinOf ==
  ASSUME NEW S, S \subseteq Nat, S # {}
  PROVE  Min(S) \in S /\ \A y \in S : Min(S) <= y
BY LeastExists DEF Min

(* LEMMA: the greatest element of a bounded set.                           *)
LEMMA MaxOf ==
  ASSUME NEW n \in Nat, NEW S, S \subseteq 0 .. n, S # {}
  PROVE  Max(S) \in S /\ \A y \in S : y <= Max(S)
<1> DEFINE T == {n - x : x \in S}
<1>1. T \subseteq Nat /\ T # {}
  <2>1. \A x \in S : n - x \in Nat
    <3> SUFFICES ASSUME NEW x \in S PROVE n - x \in Nat  OBVIOUS
    <3>1. x \in 0 .. n  OBVIOUS
    <3>2. QED  BY <3>1
  <2>2. QED  BY <2>1
<1>2. PICK m \in T : \A y \in T : m <= y  BY <1>1, LeastExists
<1>3. PICK x \in S : m = n - x  OBVIOUS
<1>4. \A y \in S : y <= x
  <2> SUFFICES ASSUME NEW y \in S PROVE y <= x  OBVIOUS
  <2>1. n - y \in T /\ x \in 0 .. n /\ y \in 0 .. n  OBVIOUS
  <2>2. QED  BY <1>2, <1>3, <2>1
<1>5. \E z \in S : \A y \in S : z >= y
  <2>1. \A y \in S : y \in Nat  OBVIOUS
  <2>2. QED  BY <1>4, <2>1
<1>6. Max(S) \in S /\ \A y \in S : Max(S) >= y  BY <1>5 DEF Max
<1>7. \A y \in S : y \in Nat  OBVIOUS
<1>8. QED  BY <1>6, <1>7

(* LEMMA: the words of a descriptor set.                                   *)
LEMMA Words ==
  ASSUME NEW a \in Nat, NEW c \in Nat
  PROVE  Word(a) \in Nat /\ (a <= c => Word(a) <= Word(c))
<1>1. NFDBITS \in Nat \ {0}  BY BoundsAssumption
<1>2. QED  BY <1>1 DEF Word

-----------------------------------------------------------------------------
(* The parts of the invariant: those of TypeOK, and three about the sets.  *)

Clock == now \in 0 .. MaxTime /\ t \in 0 .. now
Distinct ==
  \A i, j \in Slot : Open(i) /\ con[i].fd \in {con[j].fd, conffd} => i = j /\ con[i].fd # conffd
Table ==
  /\ con \in [Slot -> Connection \cup {Closed}] /\ conffd \in Fd \cup {None}
  /\ Distinct
FdSets ==
  /\ \A fd \in fdsr \cup fdsw : fd \in Fd /\ Word(fd) < words
  /\ words \in 0 .. Word(MaxFd) + 1
Ready == readable \subseteq InUse \ {None}
Rest ==
  /\ pc \in {"top", "select", "clients", "accept", "config", "read", "pipes", "blocked"}
  /\ got \subseteq Source /\ waiting \subseteq Source /\ fresh \in BOOLEAN

(* While select waits, nobody is overdue by the clock the jail has read,   *)
(* which is a second old at most if somebody is to be written to; and the  *)
(* memory of the sets holds the configuration connection.                  *)
Timely ==
  pc = "select" =>
    /\ \A i \in Slot : Open(i) => t < con[i].since + MAXTIME
    /\ timer => now <= t + 1
InWords == pc = "select" => \A fd \in InUse : Word(fd) < words

(* After it, what the sets say of the configuration connection is true, if *)
(* it is the one that was asked about.                                     *)
Honest ==
  /\ pc \in {"clients", "accept", "config"} /\ "conflisten" \in got => conffd = None
  /\ pc \in {"clients", "accept", "config", "read"} /\ ~fresh /\ conffd # None =>
       Word(conffd) < words /\ (conffd \in fdsr => conffd \in readable)

Inv ==
  /\ Clock /\ Table /\ FdSets /\ Ready /\ Rest
  /\ Timely /\ InWords /\ Honest /\ OnlyFreshBlocks

(* LEMMA: the parts make up the type invariant.                            *)
LEMMA PartsAreType == Inv => TypeOK
BY DEF Inv, Clock, Table, Distinct, FdSets, Ready, Rest, TypeOK

(* LEMMA: constants.                                                       *)
LEMMA Constants ==
  /\ maxcon \in Nat /\ MaxFd \in Nat /\ MaxTime \in Nat
  /\ MAXTIME \in Nat \ {0}
  /\ Fd \subseteq Nat /\ None \in Nat /\ None \notin Fd /\ \A fd \in Fd : fd <= MaxFd
  /\ "s" \in Source /\ "conflisten" \in Source
BY BoundsAssumption DEF Fd, None, Source

(* LEMMA: an open connection has a descriptor, a closed slot has none.     *)
LEMMA Shape ==
  ASSUME con \in [Slot -> Connection \cup {Closed}], NEW i \in Slot
  PROVE  /\ Open(i) => /\ con[i] \in Connection /\ con[i].fd \in Fd
                       /\ con[i].since \in Nat /\ con[i].does \in {"read", "write"}
         /\ ~Open(i) => con[i].fd = None /\ ~Reader(i) /\ ~Writer(i)
<1>1. CASE con[i] = Closed
  BY <1>1 DEF Open, Closed, Reader, Writer, None
<1>2. CASE con[i] # Closed
  <2>1. con[i] \in Connection  BY <1>2
  <2>2. con[i].fd \in Fd /\ con[i].since \in 0 .. MaxTime + 1 /\ con[i].does \in {"read", "write"}
    BY <2>1 DEF Connection
  <2>3. QED  BY <1>2, <2>1, <2>2, Constants DEF Open
<1>3. QED  BY <1>1, <1>2

(* LEMMA: the descriptors in use.                                          *)
LEMMA UsedFds ==
  ASSUME Table
  PROVE  /\ InUse \subseteq 0 .. MaxFd /\ InUse # {} /\ conffd \in InUse
         /\ \A i \in Slot : con[i].fd \in InUse
         /\ Watched \subseteq InUse \ {None}
         /\ max \in InUse /\ \A fd \in InUse : Word(fd) <= Word(max)
         /\ Word(max) \in 0 .. Word(MaxFd)
<1>1. con \in [Slot -> Connection \cup {Closed}] /\ conffd \in Fd \cup {None}  BY DEF Table
<1>2. \A i \in Slot : con[i].fd \in Fd \cup {None}  BY <1>1, Shape
<1>3. \A fd \in Fd \cup {None} : fd \in 0 .. MaxFd  BY Constants DEF Fd, None
<1>4. /\ InUse \subseteq 0 .. MaxFd /\ InUse # {} /\ conffd \in InUse
      /\ \A i \in Slot : con[i].fd \in InUse
  BY <1>1, <1>2, <1>3 DEF InUse
<1>5. max \in InUse /\ \A fd \in InUse : fd <= max
  BY <1>4, MaxOf, Constants DEF max
<1>6. \A fd \in InUse : fd \in Nat /\ fd <= MaxFd  BY <1>4, Constants
<1>7. \A fd \in InUse : Word(fd) \in Nat /\ Word(fd) <= Word(max)
  BY <1>5, <1>6, Words
<1>8. Word(max) \in Nat /\ Word(MaxFd) \in Nat /\ Word(max) <= Word(MaxFd)
  BY <1>5, <1>6, Words, Constants
<1>9. Watched \subseteq InUse \ {None}
  <2>1. \A i \in Slot : Reader(i) => con[i].fd \in Fd
    BY <1>1, Shape
  <2>2. QED  BY <1>4, <2>1, Constants DEF Watched
<1>10. QED  BY <1>4, <1>5, <1>7, <1>8, <1>9

(* LEMMA: connections that go on, or are closed.                           *)
LEMMA Thinned ==
  ASSUME Table, Ready, con' \in [Slot -> Connection \cup {Closed}], conffd' = conffd,
         \A i \in Slot : con'[i] # Closed => Open(i) /\ con'[i].fd = con[i].fd,
         readable' \subseteq readable,
         \A i \in Slot : Open(i) /\ con'[i] = Closed => con[i].fd \notin readable'
  PROVE  Table' /\ Ready'
<1>1. \A i \in Slot : con'[i] = Closed => con'[i].fd = None
  BY DEF Closed, None
<1>2. Distinct'
  <2> SUFFICES ASSUME NEW i \in Slot, NEW j \in Slot, con'[i] # Closed,
                      con'[i].fd \in {con'[j].fd, conffd}
               PROVE  i = j /\ con'[i].fd # conffd
    BY DEF Distinct, Open
  <2>1. Open(i) /\ con'[i].fd = con[i].fd  OBVIOUS
  <2>2. con[i].fd # None
    BY <2>1, Shape, Constants DEF Table
  <2>3. con'[i].fd \in {con[j].fd, conffd}
    BY <1>1, <2>1, <2>2
  <2>4. QED  BY <2>1, <2>3 DEF Table, Distinct
<1>3. Table'  BY <1>2 DEF Table
<1>4. Ready'
  <2> SUFFICES ASSUME NEW fd \in readable' PROVE fd \in InUse' /\ fd # None
    BY DEF Ready
  <2>1. fd \in InUse /\ fd # None  BY DEF Ready
  <2>2. CASE fd = conffd  BY <2>1, <2>2 DEF InUse
  <2>3. ASSUME NEW i \in Slot, fd = con[i].fd PROVE fd \in InUse'
    <3>1. Open(i)  BY <2>1, <2>3, Shape DEF Table
    <3>2. con'[i] # Closed  BY <2>3, <3>1
    <3>3. QED  BY <2>3, <3>2 DEF InUse
  <2>4. QED  BY <2>1, <2>2, <2>3 DEF InUse
<1>5. QED  BY <1>3, <1>4

(* LEMMA: what is to be read or written, and when the line began.          *)
LEMMA Nexts ==
  ASSUME Clock, NEW fd \in Fd, NEW c \in On(fd, Writes) \cup On(fd, Reads)
  PROVE  c \in Connection /\ c.fd = fd
<1>1. t \in Nat /\ t <= MaxTime /\ MaxTime \in Nat
  BY Constants DEF Clock
<1>2. \A n \in Writes \cup Reads : n.does \in {"read", "write"} /\ n.since \in 0 .. MaxTime + 1
  BY <1>1 DEF Writes, Reads
<1>3. PICK n \in Writes \cup Reads : c = [fd |-> fd, does |-> n.does, since |-> n.since]
  BY DEF On
<1>4. QED  BY <1>2, <1>3 DEF Connection

(* LEMMA: a handler leaves a connection its descriptor, or closes it.      *)
LEMMA OutcomeOf ==
  ASSUME Clock, Table, NEW i \in Slot, NEW c \in Outcomes(i)
  PROVE  /\ c \in Connection \cup {Closed}
         /\ c # Closed => Open(i) /\ c.fd = con[i].fd
<1>1. con \in [Slot -> Connection \cup {Closed}]  BY DEF Table
<1>2. CASE Open(i)
  <2>1. con[i].fd \in Fd /\ con[i] \in Connection  BY <1>1, <1>2, Shape
  <2>2. c \in On(con[i].fd, Writes) \cup On(con[i].fd, Reads) \cup {Closed, con[i]}
    BY DEF Outcomes, Becomes, On
  <2>3. QED  BY <1>2, <2>1, <2>2, Nexts
<1>3. CASE ~Open(i)
  <2>1. ~Reader(i) /\ ~Writer(i)  BY <1>1, <1>3, Shape
  <2>2. c = con[i]  BY <2>1 DEF Outcomes, Calls
  <2>3. QED  BY <1>3, <2>2 DEF Open
<1>4. QED  BY <1>2, <1>3

-----------------------------------------------------------------------------
(* The steps, one by one.                                                  *)

(* LEMMA: the invariant holds initially.                                   *)
LEMMA InitInv == Init => Inv
<1> SUFFICES ASSUME Init PROVE Inv  OBVIOUS
<1> USE DEF Init
<1>1. Clock  BY Constants DEF Clock
<1>2. Table
  <2>1. con \in [Slot -> Connection \cup {Closed}]  OBVIOUS
  <2>2. Distinct  BY DEF Distinct, Open
  <2>3. QED  BY <2>1, <2>2 DEF Table
<1>3. FdSets
  <2>1. Word(MaxFd) \in Nat  BY Words, Constants
  <2>2. QED  BY <2>1 DEF FdSets
<1>4. Ready /\ Rest  BY DEF Ready, Rest
<1>5. Timely /\ InWords /\ Honest /\ OnlyFreshBlocks
  BY DEF Timely, InWords, Honest, OnlyFreshBlocks
<1>6. QED  BY <1>1, <1>2, <1>3, <1>4, <1>5 DEF Inv

(* LEMMA: steps that leave descriptors, sets and clock alone.              *)
LEMMA Quiet ==
  ASSUME Inv, UNCHANGED <<now, t, con, conffd, fdsr, fdsw, words, readable>>
  PROVE  Clock' /\ Table' /\ FdSets' /\ Ready'
BY DEF Inv, Clock, Table, Distinct, Open, FdSets, Ready, InUse

(* LEMMA: the top of the loop.                                             *)
LEMMA TopKeeps == ASSUME Inv, Top PROVE Inv'
<1>1. /\ conffd' = conffd /\ t' = now /\ now' = now /\ pc' = "select"
      /\ con' = [i \in Slot |-> IF Overdue(i) THEN Closed ELSE con[i]]
      /\ readable' = readable \ {con[i].fd : i \in {j \in Slot : Overdue(j)}}
      /\ fdsr' = Stale \cup Watched'
      /\ fdsw' = {con'[i].fd : i \in {j \in Slot : Writer(j)' /\ con'[j].since <= now}}
      /\ words' = Grown
      /\ got' = got /\ waiting' = waiting /\ fresh' = fresh
  BY DEF Top
<1>2. Clock /\ Table /\ FdSets /\ Ready /\ Rest  BY DEF Inv
<1>3. Clock' /\ Rest'
  BY <1>1, <1>2, Constants DEF Clock, Rest
<1>4. \A i \in Slot : con'[i] = IF Overdue(i) THEN Closed ELSE con[i]
  BY <1>1
<1>5. \A i \in Slot : Overdue(i) => Open(i)  BY DEF Overdue
<1>6. \A i \in Slot : con'[i] # Closed => Open(i) /\ con'[i] = con[i] /\ ~Overdue(i)
  BY <1>4 DEF Open
<1>7. Table' /\ Ready'
  <2>1. con' \in [Slot -> Connection \cup {Closed}]  BY <1>1, <1>2 DEF Table
  <2>2. \A i \in Slot : Open(i) /\ con'[i] = Closed => con[i].fd \notin readable'
    BY <1>1, <1>4 DEF Open
  <2>3. QED  BY <1>1, <1>2, <1>6, <2>1, <2>2, Thinned
<1>8. /\ words \in Nat /\ words <= words' /\ Word(max) < words' /\ words' \in 0 .. Word(MaxFd) + 1
  <2>1. Word(max) \in 0 .. Word(MaxFd) /\ Word(MaxFd) \in Nat
    BY <1>2, UsedFds, Words, Constants
  <2>2. words \in 0 .. Word(MaxFd) + 1  BY <1>2 DEF FdSets
  <2> DEFINE both == {words, Word(max) + 1}
  <2>3. both \subseteq 0 .. Word(MaxFd) + 1 /\ both # {} /\ Word(MaxFd) + 1 \in Nat
    BY <2>1, <2>2
  <2> HIDE DEF both
  <2>4. Max(both) \in both /\ \A y \in both : y <= Max(both)
    BY <2>3, MaxOf
  <2>5. words' = Max(both)  BY <1>1 DEF Grown, both
  <2>6. words <= words' /\ Word(max) + 1 <= words'  BY <2>4, <2>5 DEF both
  <2>7. words' \in 0 .. Word(MaxFd) + 1  BY <2>3, <2>4, <2>5
  <2>8. QED  BY <2>1, <2>2, <2>6, <2>7
<1>9. InUse' \subseteq InUse \cup {None}
  BY <1>1, <1>4 DEF InUse, Closed, None
<1>10. \A fd \in InUse \cup {None} : Word(fd) < words' /\ Word(fd) \in Nat /\ fd \in 0 .. MaxFd
  <2>1. \A fd \in InUse : fd \in 0 .. MaxFd /\ Word(fd) <= Word(max) /\ Word(max) \in Nat
    BY <1>2, UsedFds, Words, Constants
  <2>2. max \in InUse /\ max \in Nat  BY <1>2, <2>1, UsedFds
  <2>3. Word(None) <= Word(max) /\ None \in 0 .. MaxFd
    BY <2>2, Words, Constants DEF None
  <2>4. \A fd \in InUse \cup {None} : fd \in 0 .. MaxFd /\ Word(fd) <= Word(max) /\ Word(fd) \in Nat
    BY <2>1, <2>3, Words, Constants
  <2>5. words' \in Nat /\ Word(max) \in Nat  BY <1>8, <2>2, Words
  <2>6. QED  BY <1>8, <2>4, <2>5
<1>11. FdSets'
  <2>1. \A i \in Slot : Reader(i)' \/ Writer(i)' => con'[i].fd \in Fd /\ con'[i].fd \in InUse
    <3> SUFFICES ASSUME NEW i \in Slot, Reader(i)' \/ Writer(i)'
                 PROVE  con'[i].fd \in Fd /\ con'[i].fd \in InUse
      OBVIOUS
    <3>1. con'[i] # Closed  BY DEF Reader, Writer, Closed
    <3>2. Open(i) /\ con'[i] = con[i]  BY <1>6, <3>1
    <3>3. QED  BY <1>2, <3>2, Shape, UsedFds DEF Table
  <2>2. Watched' \subseteq Fd \cap InUse
    <3>1. conffd' # None => conffd' \in Fd \cap InUse
      BY <1>1, <1>2, UsedFds DEF Table
    <3>2. QED  BY <2>1, <3>1 DEF Watched
  <2>3. fdsw' \subseteq Fd \cap InUse  BY <1>1, <2>1
  <2>4. \A fd \in Stale : fd \in Fd /\ Word(fd) < words'
    <3> SUFFICES ASSUME NEW fd \in Stale PROVE fd \in Fd /\ Word(fd) < words'  OBVIOUS
    <3>1. fd \in Fd /\ Word(fd) < words  BY <1>2 DEF Stale, FdSets
    <3>2. Word(fd) \in Nat  BY <3>1, Words, Constants
    <3>3. words' \in Nat  BY <1>2, <1>8, UsedFds, Words, Constants
    <3>4. QED  BY <1>8, <3>1, <3>2, <3>3
  <2>5. \A fd \in fdsr' \cup fdsw' : fd \in Fd /\ Word(fd) < words'
    BY <1>1, <1>10, <2>2, <2>3, <2>4
  <2>6. Word(MaxFd)' = Word(MaxFd)  BY DEF Word
  <2>7. QED  BY <1>8, <2>5, <2>6 DEF FdSets, Word
<1>12. Timely'
  <2>1. ASSUME NEW i \in Slot, con'[i] # Closed PROVE now < con'[i].since + MAXTIME
    <3>1. Open(i) /\ con'[i] = con[i] /\ ~Overdue(i)  BY <1>6, <2>1
    <3>2. con[i].since \in Nat /\ now \in Nat /\ MAXTIME \in Nat
      BY <1>2, <3>1, Shape, Constants DEF Table, Clock
    <3>3. QED  BY <3>1, <3>2 DEF Overdue
  <2>2. now <= now + 1  BY <1>2, Constants DEF Clock
  <2>3. QED  BY <1>1, <2>1, <2>2 DEF Timely, Open
<1>13. InWords'  BY <1>9, <1>10 DEF InWords, Word
<1>14. Honest' /\ OnlyFreshBlocks'  BY <1>1 DEF Honest, OnlyFreshBlocks
<1>15. QED  BY <1>3, <1>7, <1>11, <1>12, <1>13, <1>14 DEF Inv

(* LEMMA: select returns something.                                        *)
LEMMA SelectKeeps == ASSUME Inv, SelectReturns PROVE Inv'
<1>1. /\ pc = "select" /\ pc' = "clients" /\ got' = waiting \cap Asked
      /\ fdsr' = (fdsr \ Watched) \cup (Watched \cap readable)
      /\ fdsw' \in SUBSET fdsw
      /\ UNCHANGED <<now, t, con, conffd, words, waiting, readable, fresh>>
  BY DEF SelectReturns
<1>2. Clock /\ Table /\ FdSets /\ Ready /\ Rest /\ InWords  BY DEF Inv
<1>3. Clock' /\ Table' /\ Ready' /\ Rest'
  BY <1>1, <1>2 DEF Clock, Table, Distinct, Open, Ready, InUse, Rest
<1>4. \A fd \in Watched : fd \in Fd /\ Word(fd) < words
  <2>1. Watched \subseteq InUse \ {None} /\ InUse \subseteq 0 .. MaxFd
    BY <1>2, UsedFds
  <2>2. \A fd \in 0 .. MaxFd : fd # None => fd \in Fd  BY Constants DEF Fd, None
  <2>3. QED  BY <1>1, <1>2, <2>1, <2>2 DEF InWords
<1>5. FdSets'
  <2>1. \A fd \in fdsr' \cup fdsw' : fd \in Fd /\ Word(fd) < words
    BY <1>1, <1>2, <1>4 DEF FdSets
  <2>2. QED  BY <1>1, <1>2, <2>1 DEF FdSets, Word
<1>6. Honest'
  <2>1. "conflisten" \in got' => conffd' = None
    BY <1>1 DEF Asked
  <2>2. conffd # None => conffd \in Watched  BY DEF Watched
  <2>3. conffd # None => Word(conffd) < words /\ (conffd \in fdsr' => conffd \in readable)
    BY <1>1, <1>4, <2>2
  <2>4. QED  BY <1>1, <2>1, <2>3 DEF Honest, Word
<1>7. OnlyFreshBlocks'
  <2>1. ASSUME NEW i \in Slot, Reader(i), con[i].fd \in fdsr' PROVE con[i].fd \in readable
    BY <1>1, <2>1 DEF Watched
  <2>2. QED  BY <1>1, <2>1 DEF OnlyFreshBlocks, Calls, Reader
<1>8. Timely' /\ InWords'  BY <1>1 DEF Timely, InWords
<1>9. QED  BY <1>3, <1>5, <1>6, <1>7, <1>8 DEF Inv

(* LEMMA: the steps that only go on, or begin a new round.                 *)
LEMMA OnwardKeeps ==
  ASSUME Inv, SelectTimesOut \/ SelectInterrupted \/ AcceptFails \/ NoAccept \/ NoConfig
              \/ Block \/ Pipes
  PROVE  Inv'
<1>1. UNCHANGED <<now, t, con, conffd, fdsr, fdsw, words, readable>>
  BY DEF SelectTimesOut, SelectInterrupted, AcceptFails, NoAccept, NoConfig, Block, Pipes, sets
<1>2. Clock' /\ Table' /\ FdSets' /\ Ready'  BY <1>1, Quiet
<1>3. Rest /\ Honest  BY DEF Inv
<1>4. CASE SelectTimesOut \/ SelectInterrupted \/ AcceptFails \/ NoConfig \/ Pipes
  <2>1. pc' \in {"top", "pipes"} /\ got' \subseteq got /\ waiting' \subseteq waiting
        /\ fresh' \in {fresh, FALSE}
    BY <1>4 DEF SelectTimesOut, SelectInterrupted, AcceptFails, NoConfig, Pipes, sets
  <2>2. Rest'
    <3>1. fresh' \in BOOLEAN  BY <1>3, <2>1 DEF Rest
    <3>2. QED  BY <1>3, <2>1, <3>1 DEF Rest
  <2>3. Timely' /\ InWords' /\ Honest' /\ OnlyFreshBlocks'
    BY <2>1 DEF Timely, InWords, Honest, OnlyFreshBlocks
  <2>4. QED  BY <1>2, <2>2, <2>3 DEF Inv
<1>5. CASE NoAccept
  <2>1. /\ pc \in {"accept", "config"} /\ pc' \in {"config", "read"}
        /\ got' = got /\ waiting' = waiting /\ fresh' = fresh
    BY <1>5 DEF NoAccept, sets
  <2>2. Rest'  BY <1>3, <2>1 DEF Rest
  <2>3. Timely' /\ InWords' /\ OnlyFreshBlocks'
    BY <2>1 DEF Timely, InWords, OnlyFreshBlocks
  <2>4. Honest'  BY <1>1, <1>3, <2>1 DEF Honest, Word
  <2>5. QED  BY <1>2, <2>2, <2>3, <2>4 DEF Inv
<1>6. CASE Block
  <2>1. /\ pc = "read" /\ pc' = "blocked" /\ conffd # None /\ TRUE \in IsSet(conffd)
        /\ conffd \notin readable /\ got' = got /\ waiting' = waiting /\ fresh' = fresh
    BY <1>6 DEF Block, sets
  <2>2. Rest'  BY <1>3, <2>1 DEF Rest
  <2>3. fresh
    <3> SUFFICES ASSUME ~fresh PROVE FALSE  BY <1>3 DEF Rest
    <3>1. Word(conffd) < words /\ conffd \notin fdsr  BY <1>3, <2>1 DEF Honest
    <3>2. IsSet(conffd) = {conffd \in fdsr}  BY <3>1, Zenon DEF IsSet
    <3>3. (conffd \in fdsr) = TRUE  BY <2>1, <3>2, Zenon
    <3>4. QED  BY <3>1, <3>3, Zenon
  <2>4. OnlyFreshBlocks'  BY <2>1, <2>3 DEF OnlyFreshBlocks
  <2>5. Timely' /\ InWords' /\ Honest'  BY <2>1 DEF Timely, InWords, Honest
  <2>6. QED  BY <1>2, <2>2, <2>4, <2>5 DEF Inv
<1>7. QED  BY <1>4, <1>5, <1>6

(* LEMMA: the handlers of the clients.                                     *)
LEMMA ClientsKeeps == ASSUME Inv, Clients PROVE Inv'
<1> DEFINE gone == {con[i].fd : i \in {j \in Slot : Calls(j) \/ con'[j] = Closed}}
<1>1. /\ pc = "clients" /\ pc' = "accept" /\ fdsw' = {}
      /\ con' \in {c \in [Slot -> UNION {Outcomes(i) : i \in Slot}] :
                     \A i \in Slot : c[i] \in Outcomes(i)}
      /\ readable' = readable \ gone
      /\ UNCHANGED <<now, t, conffd, fdsr, words, got, waiting, fresh>>
  BY DEF Clients
<1>2. Clock /\ Table /\ FdSets /\ Ready /\ Rest /\ Honest  BY DEF Inv
<1>3. DOMAIN con' = Slot /\ con' = [i \in Slot |-> con'[i]] /\ \A i \in Slot : con'[i] \in Outcomes(i)
  BY <1>1
<1>4. \A i \in Slot : /\ con'[i] \in Connection \cup {Closed}
                      /\ con'[i] # Closed => Open(i) /\ con'[i].fd = con[i].fd
  BY <1>2, <1>3, OutcomeOf
<1>5. con' \in [Slot -> Connection \cup {Closed}]
  BY <1>3, <1>4
<1>6. Table' /\ Ready'
  <2>1. readable' \subseteq readable
        /\ \A i \in Slot : Open(i) /\ con'[i] = Closed => con[i].fd \notin readable'
    BY <1>1
  <2>2. conffd' = conffd  BY <1>1
  <2> HIDE DEF gone
  <2>3. QED  BY <1>2, <1>4, <1>5, <2>1, <2>2, Thinned
<1>7. Clock' /\ Rest'  BY <1>1, <1>2 DEF Clock, Rest
<1>8. FdSets'  BY <1>1, <1>2 DEF FdSets, Word
<1>9. conffd # None => conffd \notin gone
  <2> SUFFICES ASSUME NEW i \in Slot, conffd # None, con[i].fd = conffd PROVE FALSE
    OBVIOUS
  <2>1. Open(i)  BY <1>2, Shape DEF Table
  <2>2. QED  BY <1>2, <2>1 DEF Table, Distinct
<1>10. Honest'
  <2>1. conffd # None /\ conffd \in readable => conffd \in readable'
    BY <1>1, <1>9
  <2>2. QED  BY <1>1, <1>2, <2>1 DEF Honest, Word
<1>11. Timely' /\ InWords' /\ OnlyFreshBlocks'
  BY <1>1 DEF Timely, InWords, OnlyFreshBlocks
<1>12. QED  BY <1>6, <1>7, <1>8, <1>10, <1>11 DEF Inv

(* LEMMA: a client is accepted.                                            *)
LEMMA AcceptClientKeeps == ASSUME Inv, AcceptClient PROVE Inv'
<1>1. /\ pc = "accept" /\ pc' = "config" /\ Free # {} /\ waiting' = waiting \ {"s"}
      /\ UNCHANGED <<now, t, conffd, fdsr, fdsw, words, got, readable, fresh>>
  BY DEF AcceptClient, sets
<1>2. Clock /\ Table /\ FdSets /\ Ready /\ Rest /\ Honest  BY DEF Inv
<1>3. Clock' /\ FdSets' /\ Rest'
  BY <1>1, <1>2 DEF Clock, FdSets, Word, Rest
<1>4. Table' /\ Ready'
  <2>1. CASE \A i \in Slot : Open(i)
    <3>1. con' = con  BY <2>1 DEF AcceptClient
    <3>2. QED  BY <1>1, <3>1, Quiet
  <2>2. CASE ~(\A i \in Slot : Open(i))
    <3> DEFINE closed == {j \in Slot : ~Open(j)}
               i == Min(closed)
    <3>1. PICK first \in On(NewFd, Writes) : con' = [con EXCEPT ![i] = first]
      BY <2>2 DEF AcceptClient
    <3>2. i \in closed
      <4>1. closed \subseteq Nat /\ closed # {}  BY <2>2 DEF Slot
      <4> HIDE DEF closed
      <4>2. QED  BY <4>1, MinOf
    <3> HIDE DEF i
    <3>3. i \in Slot /\ ~Open(i)  BY <3>2
    <3>4. NewFd \in Fd /\ NewFd \notin InUse
      <4>1. Free \subseteq Nat  BY Constants DEF Free
      <4>2. NewFd \in Free  BY <1>1, <4>1, MinOf DEF NewFd
      <4>3. QED  BY <4>2 DEF Free
    <3>5. first \in Connection /\ first.fd = NewFd  BY <1>2, <3>4, Nexts
    <3>6. /\ con' \in [Slot -> Connection \cup {Closed}]
          /\ \A j \in Slot : con'[j] = IF j = i THEN first ELSE con[j]
      BY <1>2, <3>1, <3>3, <3>5 DEF Table
    <3>7. \A j \in Slot : con[j].fd # NewFd /\ conffd # NewFd
      BY <1>2, <3>4, UsedFds
    <3>8. Distinct'
      <4> SUFFICES ASSUME NEW j \in Slot, NEW k \in Slot, con'[j] # Closed,
                          con'[j].fd \in {con'[k].fd, conffd}
                   PROVE  j = k /\ con'[j].fd # conffd
        BY <1>1 DEF Distinct, Open
      <4>1. CASE j = i  BY <3>5, <3>6, <3>7, <4>1
      <4>2. CASE j # i
        <5>1. con'[j] = con[j] /\ Open(j)  BY <3>6, <4>2 DEF Open
        <5>2. con[j].fd \in {con[k].fd, conffd}
          BY <3>5, <3>6, <3>7, <5>1
        <5>3. j = k /\ con[j].fd # conffd  BY <1>2, <5>1, <5>2 DEF Table, Distinct
        <5>4. QED  BY <5>1, <5>3
      <4>3. QED  BY <4>1, <4>2
    <3>9. Table'  BY <1>1, <1>2, <3>6, <3>8 DEF Table
    <3>10. con[i].fd = None  BY <1>2, <3>3, Shape DEF Table
    <3>11. Ready'
      <4> SUFFICES ASSUME NEW fd \in readable PROVE fd \in InUse' /\ fd # None
        BY <1>1 DEF Ready
      <4>1. fd \in InUse /\ fd # None  BY <1>2 DEF Ready
      <4>2. fd = conffd \/ \E j \in Slot : j # i /\ fd = con[j].fd
        BY <3>10, <4>1 DEF InUse
      <4>3. QED  BY <1>1, <3>6, <4>1, <4>2 DEF InUse
    <3>12. QED  BY <3>9, <3>11
  <2>3. QED  BY <2>1, <2>2
<1>5. Honest'  BY <1>1, <1>2 DEF Honest, Word
<1>6. Timely' /\ InWords' /\ OnlyFreshBlocks'
  BY <1>1 DEF Timely, InWords, OnlyFreshBlocks
<1>7. QED  BY <1>3, <1>4, <1>5, <1>6 DEF Inv

(* LEMMA: a configuration connection is accepted, or not wanted.           *)
LEMMA AcceptConfigKeeps == ASSUME Inv, AcceptConfig PROVE Inv'
<1>1. /\ pc = "config" /\ pc' = "read" /\ "conflisten" \in got /\ Free # {}
      /\ conffd' \in {NewFd, None} /\ fresh' = (conffd' # None)
      /\ waiting' = waiting \ {"conflisten"}
      /\ UNCHANGED <<now, t, con, fdsr, fdsw, words, got, readable>>
  BY DEF AcceptConfig, sets
<1>2. Clock /\ Table /\ FdSets /\ Ready /\ Rest /\ Honest  BY DEF Inv
<1>3. fresh' \in BOOLEAN /\ (fresh' <=> conffd' # None)
  BY <1>1
<1>4. Clock' /\ FdSets' /\ Rest'
  BY <1>1, <1>2, <1>3 DEF Clock, FdSets, Word, Rest
<1>5. conffd = None  BY <1>1, <1>2 DEF Honest
<1>6. NewFd \in Fd /\ NewFd \notin InUse
  <2>1. Free \subseteq Nat  BY Constants DEF Free
  <2>2. NewFd \in Free  BY <1>1, <2>1, MinOf DEF NewFd
  <2>3. QED  BY <2>2 DEF Free
<1>7. Distinct'
  <2> SUFFICES ASSUME NEW i \in Slot, NEW j \in Slot, Open(i),
                      con[i].fd \in {con[j].fd, conffd'}
               PROVE  i = j /\ con[i].fd # conffd'
    BY <1>1 DEF Distinct, Open
  <2>1. con[i].fd \in Fd /\ con[i].fd # None /\ con[i].fd \in InUse
    BY <1>2, Shape, UsedFds, Constants DEF Table
  <2>2. con[i].fd # conffd'  BY <1>1, <1>6, <2>1
  <2>3. con[i].fd \in {con[j].fd, conffd}  BY <2>2
  <2>4. QED  BY <1>2, <2>2, <2>3 DEF Table, Distinct
<1>8. Table'  BY <1>1, <1>2, <1>6, <1>7 DEF Table
<1>9. Ready'  BY <1>1, <1>2, <1>5 DEF Ready, InUse
<1>10. Honest'  BY <1>1, <1>3 DEF Honest
<1>11. Timely' /\ InWords' /\ OnlyFreshBlocks'
  BY <1>1 DEF Timely, InWords, OnlyFreshBlocks
<1>12. QED  BY <1>4, <1>8, <1>9, <1>10, <1>11 DEF Inv

(* LEMMA: do_config reads, or gives up.                                    *)
LEMMA ConfigKeeps ==
  ASSUME Inv, NEW ends \in BOOLEAN, Config(ends) \/ Unblock(ends)
  PROVE  Inv'
<1>1. /\ pc' = "pipes" /\ conffd' = (IF ends THEN None ELSE conffd)
      /\ readable' = readable \ {conffd}
      /\ UNCHANGED <<now, t, con, fdsr, fdsw, words, got, waiting, fresh>>
  BY DEF Config, Unblock, DoConfig, sets
<1>2. Clock /\ Table /\ FdSets /\ Ready /\ Rest  BY DEF Inv
<1>3. Clock' /\ FdSets' /\ Rest'
  BY <1>1, <1>2 DEF Clock, FdSets, Word, Rest
<1>4. Table'
  <2>1. Distinct'
    <3> SUFFICES ASSUME NEW i \in Slot, NEW j \in Slot, Open(i),
                        con[i].fd \in {con[j].fd, conffd'}
                 PROVE  i = j /\ con[i].fd # conffd'
      BY <1>1 DEF Distinct, Open
    <3>1. con[i].fd \in Fd /\ con[i].fd # None  BY <1>2, Shape, Constants DEF Table
    <3>2. con[i].fd \in {con[j].fd, conffd}  BY <1>1, <3>1
    <3>3. i = j /\ con[i].fd # conffd  BY <1>2, <3>2 DEF Table, Distinct
    <3>4. QED  BY <1>1, <3>1, <3>3
  <2>2. QED  BY <1>1, <1>2, <2>1 DEF Table
<1>5. Ready'
  <2> SUFFICES ASSUME NEW fd \in readable' PROVE fd \in InUse' /\ fd # None
    BY DEF Ready
  <2>1. fd \in InUse /\ fd # None /\ fd # conffd  BY <1>1, <1>2 DEF Ready
  <2>2. QED  BY <1>1, <2>1 DEF InUse
<1>6. Timely' /\ InWords' /\ Honest' /\ OnlyFreshBlocks'
  BY <1>1 DEF Timely, InWords, Honest, OnlyFreshBlocks
<1>7. QED  BY <1>3, <1>4, <1>5, <1>6 DEF Inv

(* LEMMA: what the peers do.                                               *)
LEMMA PeersKeep ==
  ASSUME Inv, (\E fd \in Fd : PeerSends(fd)) \/ \E x \in Source : Arrives(x)
  PROVE  Inv'
<1>1. /\ pc \in {"select", "read", "blocked"} /\ readable \subseteq readable'
      /\ readable' \subseteq InUse \ {None} /\ waiting' \subseteq Source
      /\ UNCHANGED <<now, t, pc, con, conffd, fdsr, fdsw, words, got, fresh>>
  BY DEF PeerSends, Arrives, sets, Inv, Ready, Rest
<1>2. Clock' /\ Table' /\ FdSets' /\ Ready' /\ Rest'
  BY <1>1 DEF Inv, Clock, Table, Distinct, Open, FdSets, Word, Ready, InUse, Rest
<1>3. Timely' /\ InWords'
  BY <1>1 DEF Inv, Timely, timer, Writers, Writer, Open, InWords, InUse, Word
<1>4. Honest'  BY <1>1 DEF Inv, Honest, Word
<1>5. OnlyFreshBlocks'  BY <1>1 DEF Inv, OnlyFreshBlocks
<1>6. QED  BY <1>2, <1>3, <1>4, <1>5 DEF Inv

(* LEMMA: time passes in select, or while do_config waits.                 *)
LEMMA TickKeeps == ASSUME Inv, Tick PROVE Inv'
<1>1. /\ now' = now + 1 /\ now < MaxTime /\ (pc = "select" => (timer => now = t))
      /\ UNCHANGED <<t, pc, con, conffd, fdsr, fdsw, words, got, waiting, readable, fresh>>
  BY DEF Tick, sets
<1>2. Clock /\ Table  BY DEF Inv
<1>3. now \in Nat /\ now <= MaxTime /\ t \in Nat /\ t <= now
  BY <1>2, Constants DEF Clock
<1>4. Clock'  BY <1>1, <1>3, Constants DEF Clock
<1>5. Table' /\ FdSets' /\ Ready' /\ Rest'
  BY <1>1 DEF Inv, Table, Distinct, Open, FdSets, Word, Ready, InUse, Rest
<1>6. InWords' /\ Honest' /\ OnlyFreshBlocks'
  BY <1>1 DEF Inv, InWords, InUse, Word, Honest, OnlyFreshBlocks, Calls, Reader
<1>7. Timely'
  <2>1. timer' = timer  BY <1>1 DEF timer, Writers, Writer
  <2>2. \A i \in Slot : Open(i)' <=> Open(i)  BY <1>1 DEF Open
  <2>3. pc = "select" /\ timer => now + 1 <= t + 1  BY <1>1, <1>3
  <2>4. QED  BY <1>1, <2>1, <2>2, <2>3 DEF Inv, Timely
<1>8. QED  BY <1>4, <1>5, <1>6, <1>7 DEF Inv

(* LEMMA: every step keeps the invariant.                                  *)
LEMMA StepInv == Inv /\ [Next]_vars => Inv'
<1> SUFFICES ASSUME Inv, [Next]_vars PROVE Inv'  OBVIOUS
<1>1. CASE Loop
  BY <1>1, TopKeeps, SelectKeeps, OnwardKeeps, ClientsKeeps, AcceptClientKeeps,
     AcceptConfigKeeps, ConfigKeeps DEF Loop
<1>2. CASE SelectInterrupted  BY <1>2, OnwardKeeps
<1>3. CASE (\E fd \in Fd : PeerSends(fd)) \/ \E x \in Source : Arrives(x)
  BY <1>3, PeersKeep
<1>4. CASE Tick  BY <1>4, TickKeeps
<1>5. CASE UNCHANGED vars
  <2>1. UNCHANGED <<now, t, pc, con, conffd, fdsr, fdsw, words, got, waiting, readable, fresh>>
    BY <1>5 DEF vars, sets
  <2>2. Clock' /\ Table' /\ FdSets' /\ Ready'  BY <2>1, Quiet
  <2>3. Rest' /\ InWords' /\ Honest' /\ OnlyFreshBlocks'
    BY <2>1 DEF Inv, Rest, InWords, InUse, Word, Honest, OnlyFreshBlocks, Calls, Reader
  <2>4. Timely'
    BY <2>1 DEF Inv, Timely, timer, Writers, Writer, Open
  <2>5. QED  BY <2>2, <2>3, <2>4 DEF Inv
<1>6. QED  BY <1>1, <1>2, <1>3, <1>4, <1>5 DEF Next

(* LEMMA: the invariant of the specification.                              *)
LEMMA Invariant == Spec => []Inv
<1>1. QED  BY InitInv, StepInv, PTL DEF Spec

-----------------------------------------------------------------------------
(* THEOREM: the state of the main loop has its types: no two connections   *)
(* have the same descriptor, and every bit that is set lies in the memory  *)
(* that was allocated for the sets.                                        *)
THEOREM TypeCorrect == Spec => []TypeOK
<1>1. QED  BY PartsAreType, Invariant, PTL

(* THEOREM: only a configuration connection that was accepted in the same  *)
(* round can make the jail wait in read for a descriptor that is not ready *)
(* (spamd.c, main and do_config).                                          *)
THEOREM OnlyFreshBlock == Spec => []OnlyFreshBlocks
<1>1. Inv => OnlyFreshBlocks  BY DEF Inv
<1>2. QED  BY <1>1, Invariant, PTL

(* THEOREM: while somebody is to be written to, no connection outlives     *)
(* MAXTIME by more than the second that select waits (spamd.c, main).      *)
THEOREM JailIsPunctual == Spec => []Punctual
<1>1. Inv => Punctual
  <2> SUFFICES ASSUME Inv, pc = "select", \E i \in Slot : Writer(i), NEW i \in Slot, Open(i)
               PROVE  now <= con[i].since + MAXTIME
    BY DEF Punctual
  <2>1. timer  BY DEF timer, Writers
  <2>2. now <= t + 1 /\ t < con[i].since + MAXTIME  BY <2>1 DEF Inv, Timely
  <2>3. con[i].since \in Nat  BY Shape DEF Inv, Table
  <2>4. now \in Nat /\ t \in Nat /\ MAXTIME \in Nat  BY Constants DEF Inv, Clock
  <2>5. QED  BY <2>2, <2>3, <2>4
<1>2. QED  BY <1>1, Invariant, PTL
=============================================================================
