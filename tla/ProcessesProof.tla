--------------------------- MODULE ProcessesProof ---------------------------
(* Proofs about Processes, for every set of hosts and all pipe sizes.      *)
EXTENDS Processes, TLAPS

USE DEF Scanner, Updater, Jail, Spamlogd, Process, Child, Locker, Free

-----------------------------------------------------------------------------
(* Types. *)

(* LEMMA: a pipe that has room takes one more line, and taking the first   *)
(* line out of a pipe or a buffer leaves a sequence that is no longer.     *)
LEMMA Lines ==
  ASSUME NEW s \in Seq(SUBSET Ip), NEW line \in SUBSET Ip
  PROVE  /\ Append(s, line) \in Seq(SUBSET Ip)
         /\ Len(Append(s, line)) = Len(s) + 1
         /\ s # <<>> => Head(s) \in SUBSET Ip /\ Tail(s) \in Seq(SUBSET Ip)
  OBVIOUS

(* LEMMA: an empty pipe or buffer is a sequence, and it fits.              *)
LEMMA Empty == \A s : s = <<>> => s \in Seq(SUBSET Ip) /\ Len(s) <= TrapCap
<1>1. <<>> \in Seq(SUBSET Ip)
  OBVIOUS
<1>2. Len(<<>>) = 0
  OBVIOUS
<1>3. Len(<<>>) <= TrapCap
  BY <1>2, CapAssumption
<1> QED BY <1>1, <1>3, Zenon

(* LEMMA: every step keeps the types; the pipes hold no more than fits     *)
(* because both writers wait for room.                                     *)
LEMMA TypeInductive == TypeOK /\ [Next]_vars => TypeOK'
<1> SUFFICES ASSUME TypeOK, [Next]_vars PROVE TypeOK'
  OBVIOUS
<1> USE CapAssumption DEF TypeOK
<1>1. ASSUME NEW p \in Locker \cup Process, NEW l \in Label, Goto(p, l)
      PROVE  pc' \in [Locker \cup Process -> Label]
  BY <1>1 DEF Goto
<1> HIDE DEF Scanner, Updater, Jail, Spamlogd, Process, Child, Locker, Free
<1>2. /\ Scanner \in Locker /\ Updater \in Locker /\ Spamlogd \in Locker
      /\ Scanner \in Process /\ Updater \in Process /\ Jail \in Process
  BY DEF Scanner, Updater, Jail, Spamlogd, Process, Locker
<1>3. CASE InstallHandlers
  <2>1. Goto(Scanner, "sleep") /\ "sleep" \in Label
    BY <1>3 DEF InstallHandlers, Label
  <2>2. pc' \in [Locker \cup Process -> Label]
    BY <1>1, <1>2, <2>1
  <2> QED
    BY <1>2, <1>3, <2>2 DEF InstallHandlers, pipes, data
<1>4. CASE Wake
  <2>1. Goto(Scanner, "open") /\ "open" \in Label
    BY <1>4 DEF Wake, Label
  <2>2. pc' \in [Locker \cup Process -> Label]
    BY <1>1, <1>2, <2>1
  <2> QED
    BY <1>2, <1>4, <2>2 DEF Wake, pipes, data
<1>5. CASE ScanOpen
  <2>1. Goto(Scanner, "walk") /\ "walk" \in Label
    BY <1>5 DEF ScanOpen, Label
  <2>2. pc' \in [Locker \cup Process -> Label]
    BY <1>1, <1>2, <2>1
  <2> QED
    BY <1>2, <1>5, <2>2 DEF ScanOpen, Acquire, pipes, data
<1>6. CASE ScanWalk
  <2>1. Goto(Scanner, "pf") /\ "pf" \in Label
    BY <1>6 DEF ScanWalk, Label
  <2>2. pc' \in [Locker \cup Process -> Label]
    BY <1>1, <1>2, <2>1
  <2> QED
    BY <1>2, <1>6, <2>2 DEF ScanWalk, Release, pipes
<1>7. CASE ConfigurePf
  <2>1. Goto(Scanner, "send") /\ "send" \in Label
    BY <1>7 DEF ConfigurePf, Label
  <2>2. pc' \in [Locker \cup Process -> Label]
    BY <1>1, <1>2, <2>1
  <2> QED
    BY <1>2, <1>7, <2>2 DEF ConfigurePf, pipes, data
<1>8. CASE ConfigureSpamd
  <2>1. Goto(Scanner, "sleep") /\ "sleep" \in Label
    BY <1>8 DEF ConfigureSpamd, Label
  <2>2. pc' \in [Locker \cup Process -> Label]
    BY <1>1, <1>2, <2>1
  <2> QED
    BY <1>2, <1>8, <2>2, Lines DEF ConfigureSpamd
<1>9. CASE GreyRead
  <2>1. Goto(Updater, "open") /\ "open" \in Label
    BY <1>9 DEF GreyRead, Label
  <2>2. pc' \in [Locker \cup Process -> Label]
    BY <1>1, <1>2, <2>1
  <2> QED
    BY <1>2, <1>9, <2>2 DEF GreyRead, data
<1>10. CASE GreyOpen
  <2>1. Goto(Updater, "update") /\ "update" \in Label
    BY <1>10 DEF GreyOpen, Label
  <2>2. pc' \in [Locker \cup Process -> Label]
    BY <1>1, <1>2, <2>1
  <2> QED
    BY <1>2, <1>10, <2>2 DEF GreyOpen, Acquire, pipes, data
<1>11. CASE GreyUpdate
  <2>1. Goto(Updater, "read") /\ "read" \in Label
    BY <1>11 DEF GreyUpdate, Label
  <2>2. pc' \in [Locker \cup Process -> Label]
    BY <1>1, <1>2, <2>1
  <2> QED
    BY <1>2, <1>11, <2>2 DEF GreyUpdate, Release, pipes
<1>12. CASE SpamlogdOpen
  <2>1. Goto(Spamlogd, "update") /\ "update" \in Label
    BY <1>12 DEF SpamlogdOpen, Label
  <2>2. pc' \in [Locker \cup Process -> Label]
    BY <1>1, <1>2, <2>1
  <2> QED
    BY <1>2, <1>12, <2>2 DEF SpamlogdOpen, Acquire, pipes, data
<1>13. CASE SpamlogdUpdate
  <2>1. Goto(Spamlogd, "idle") /\ "idle" \in Label
    BY <1>13 DEF SpamlogdUpdate, Label
  <2>2. pc' \in [Locker \cup Process -> Label]
    BY <1>1, <1>2, <2>1
  <2> QED
    BY <1>2, <1>13, <2>2 DEF SpamlogdUpdate, Release, pipes
<1>14. CASE Select
  <2>1. Goto(Jail, "smtp") /\ "smtp" \in Label
    BY <1>14 DEF Select, Label
  <2>2. pc' \in [Locker \cup Process -> Label]
    BY <1>1, <1>2, <2>1
  <2> QED
    BY <1>2, <1>14, <2>2 DEF Select, data
<1>15. CASE SendTuple
  <2>1. Goto(Jail, "trap") /\ "trap" \in Label
    BY <1>15 DEF SendTuple, Label
  <2>2. pc' \in [Locker \cup Process -> Label]
    BY <1>1, <1>2, <2>1
  <2> QED
    BY <1>2, <1>15, <2>2 DEF SendTuple, data
<1>16. CASE Commands
  <2>1. PICK label \in {"write", "trap"} : Goto(Jail, label)
    BY <1>16 DEF Commands
  <2>2. pc' \in [Locker \cup Process -> Label]
    BY <1>1, <1>2, <2>1 DEF Label
  <2> QED
    BY <1>2, <1>16, <2>2 DEF Commands, pipes, data
<1>17. CASE ReadConfigline
  <2>1. Goto(Jail, "select") /\ "select" \in Label
    BY <1>17 DEF ReadConfigline, Label
  <2>2. pc' \in [Locker \cup Process -> Label]
    BY <1>1, <1>2, <2>1
  <2>3. CASE readable /\ Buffered # <<>>
    <3>1. Buffered \in Seq(SUBSET Ip)
      BY DEF Buffered
    <3>2. Head(Buffered) \in SUBSET Ip /\ Tail(Buffered) \in Seq(SUBSET Ip)
      BY <2>3, <3>1, Lines
    <3>3. greytrap' \in SUBSET Ip /\ trapbuf' \in Seq(SUBSET Ip)
      BY <1>17, <2>3, <3>2 DEF ReadConfigline, Parsed
    <3>4. trappipe' \in {trappipe, <<>>}
      BY <1>17, <2>3 DEF ReadConfigline
    <3>5. trappipe' \in Seq(SUBSET Ip) /\ Len(trappipe') <= TrapCap
      BY <3>4, Empty, Zenon DEF TypeOK
    <3> QED
      BY <1>17, <2>2, <3>3, <3>5 DEF ReadConfigline, data
  <2>4. CASE ~(readable /\ Buffered # <<>>)
    BY <1>17, <2>2, <2>4 DEF ReadConfigline, data
  <2> QED BY <2>3, <2>4
<1>18. ASSUME NEW p \in Child, ChildDies(p) PROVE TypeOK'
  BY <1>18 DEF ChildDies, Unlock, pipes, data
<1>19. CASE Terminate
  BY <1>19 DEF Terminate, Unlock, pipes, data
<1>20. CASE GreyEof \/ \E p \in Child : Kill(p)
  BY <1>18, <1>20 DEF GreyEof, Kill, Child
<1>21. CASE UNCHANGED vars
  BY <1>21 DEF vars, pipes, data
<1> QED
  BY <1>3, <1>4, <1>5, <1>6, <1>7, <1>8, <1>9, <1>10, <1>11, <1>12, <1>13, <1>14, <1>15, <1>16, <1>17, <1>19, <1>20, <1>21
  DEF Next, ScannerStep, UpdaterStep, JailStep

(* THEOREM: the type invariant, which bounds both pipes.                   *)
THEOREM TypeCorrect == Spec => []TypeOK
<1>1. Init => TypeOK
  <2> SUFFICES ASSUME Init PROVE TypeOK
    OBVIOUS
  <2>1. pc \in [Locker \cup Process -> Label]
    <3>1. \A p \in Locker \cup Process : pc[p] \in Label
      BY DEF Init, Label
    <3> QED BY <3>1 DEF Init
  <2>2. /\ trappipe \in Seq(SUBSET Ip) /\ Len(trappipe) <= TrapCap
        /\ trapbuf \in Seq(SUBSET Ip)
    BY Empty, Zenon DEF Init
  <2>3. greypipe \in 0 .. GreyCap
    BY CapAssumption DEF Init
  <2>4. /\ lock \in Locker \cup {Free} /\ trapped \subseteq Ip
        /\ traplist \subseteq Ip /\ greytrap \subseteq Ip
        /\ readable \in BOOLEAN /\ alive \subseteq Process
    BY DEF Init
  <2> QED BY <2>1, <2>2, <2>3, <2>4 DEF TypeOK
<1> QED
  BY <1>1, TypeInductive, PTL DEF Spec

-----------------------------------------------------------------------------
(* The lock. *)

(* LEMMA: a step that moves no process but p, which does not hold the lock *)
(* afterwards, and kills nobody, keeps the lock short.                     *)
LEMMA OthersKeepLock ==
  ASSUME TypeOK, LockIsShort, NEW p \in Locker \cup Process, NEW l \in Label,
         Goto(p, l), alive' = alive, lock' \in {lock, Free}, lock' # p
  PROVE  LockIsShort'
  BY DEF TypeOK, LockIsShort, Goto

(* LEMMA: a step that takes the lock goes on to hold it for a short time.  *)
LEMMA TakersHoldItBriefly ==
  ASSUME TypeOK, NEW p \in Locker, NEW l \in {"walk", "update"},
         Goto(p, l), Acquire(p), alive' = alive, p \in Process => p \in alive
  PROVE  LockIsShort'
  BY DEF TypeOK, LockIsShort, Goto, Acquire

(* LEMMA: the dead drop the lock.                                          *)
LEMMA DeadDropLock ==
  ASSUME LockIsShort, NEW dead, Unlock(dead), alive' = alive \ dead, pc' = pc
  PROVE  LockIsShort'
  BY DEF LockIsShort, Unlock

(* THEOREM: nobody holds the database's lock while it waits for somebody   *)
(* else, so the circle of pipes and lock never closes.                     *)
THEOREM LockNeverHeldWaiting == Spec => []LockIsShort
<1>1. Init => LockIsShort
  BY DEF Init, LockIsShort
<1>2. ASSUME TypeOK, LockIsShort, [Next]_vars
      PROVE  LockIsShort'
  <2>1. CASE ScanOpen
    <3>1. Scanner \in alive
      BY <2>1 DEF ScanOpen, At
    <3> QED
      BY <1>2, <2>1, <3>1, TakersHoldItBriefly DEF ScanOpen, pipes, data
  <2>2. CASE GreyOpen
    <3>1. Updater \in alive
      BY <2>2 DEF GreyOpen, At
    <3> QED
      BY <1>2, <2>2, <3>1, TakersHoldItBriefly DEF GreyOpen, pipes, data
  <2>3. CASE SpamlogdOpen
    BY <1>2, <2>3, TakersHoldItBriefly DEF SpamlogdOpen, pipes, data
  <2>4. CASE InstallHandlers
    <3>1. pc[Scanner] \notin {"walk", "update"} /\ lock # Scanner
      BY <1>2, <2>4 DEF InstallHandlers, At, LockIsShort
    <3>2. lock' = lock
      BY <2>4, <3>1 DEF InstallHandlers
    <3> QED
      BY <1>2, <2>4, <3>1, <3>2, OthersKeepLock DEF InstallHandlers, pipes, data, Label
  <2>5. CASE Wake
    <3>1. pc[Scanner] \notin {"walk", "update"} /\ lock # Scanner
      BY <1>2, <2>5 DEF Wake, At, LockIsShort
    <3>2. lock' = lock
      BY <2>5, <3>1 DEF Wake
    <3> QED
      BY <1>2, <2>5, <3>1, <3>2, OthersKeepLock DEF Wake, pipes, data, Label
  <2>6. CASE ScanWalk
    <3>1. lock' = Free /\ Free # Scanner
      BY <2>6 DEF ScanWalk, Release
    <3> QED
      BY <1>2, <2>6, <3>1, OthersKeepLock DEF ScanWalk, pipes, data, Label
  <2>7. CASE ConfigurePf
    <3>1. pc[Scanner] \notin {"walk", "update"} /\ lock # Scanner
      BY <1>2, <2>7 DEF ConfigurePf, At, LockIsShort
    <3>2. lock' = lock
      BY <2>7, <3>1 DEF ConfigurePf
    <3> QED
      BY <1>2, <2>7, <3>1, <3>2, OthersKeepLock DEF ConfigurePf, pipes, data, Label
  <2>8. CASE ConfigureSpamd
    <3>1. pc[Scanner] \notin {"walk", "update"} /\ lock # Scanner
      BY <1>2, <2>8 DEF ConfigureSpamd, At, LockIsShort
    <3>2. lock' = lock
      BY <2>8, <3>1 DEF ConfigureSpamd
    <3> QED
      BY <1>2, <2>8, <3>1, <3>2, OthersKeepLock DEF ConfigureSpamd, pipes, data, Label
  <2>9. CASE GreyRead
    <3>1. pc[Updater] \notin {"walk", "update"} /\ lock # Updater
      BY <1>2, <2>9 DEF GreyRead, At, LockIsShort
    <3>2. lock' = lock
      BY <2>9, <3>1 DEF GreyRead
    <3> QED
      BY <1>2, <2>9, <3>1, <3>2, OthersKeepLock DEF GreyRead, pipes, data, Label
  <2>10. CASE GreyUpdate
    <3>1. lock' = Free /\ Free # Updater
      BY <2>10 DEF GreyUpdate, Release
    <3> QED
      BY <1>2, <2>10, <3>1, OthersKeepLock DEF GreyUpdate, pipes, data, Label
  <2>11. CASE SpamlogdUpdate
    <3>1. lock' = Free /\ Free # Spamlogd
      BY <2>11 DEF SpamlogdUpdate, Release
    <3> QED
      BY <1>2, <2>11, <3>1, OthersKeepLock DEF SpamlogdUpdate, pipes, data, Label
  <2>12. CASE Select
    <3>1. lock' = lock /\ lock # Jail
      BY <1>2, <2>12 DEF Select, TypeOK
    <3> QED
      BY <1>2, <2>12, <3>1, OthersKeepLock DEF Select, pipes, data, Label
  <2>13. CASE SendTuple
    <3>1. lock' = lock /\ lock # Jail
      BY <1>2, <2>13 DEF SendTuple, TypeOK
    <3> QED
      BY <1>2, <2>13, <3>1, OthersKeepLock DEF SendTuple, pipes, data, Label
  <2>14. CASE Commands
    <3>1. lock' = lock /\ lock # Jail
      BY <1>2, <2>14 DEF Commands, TypeOK
    <3> QED
      BY <1>2, <2>14, <3>1, OthersKeepLock DEF Commands, pipes, data, Label
  <2>15. CASE ReadConfigline
    <3>1. lock' = lock /\ lock # Jail
      BY <1>2, <2>15 DEF ReadConfigline, TypeOK
    <3> QED
      BY <1>2, <2>15, <3>1, OthersKeepLock DEF ReadConfigline, pipes, data, Label
  <2>16. CASE GreyEof \/ \E p \in Child : Kill(p)
    BY <1>2, <2>16, DeadDropLock DEF GreyEof, Kill, ChildDies, pipes, data
  <2>17. CASE Terminate
    BY <1>2, <2>17, DeadDropLock DEF Terminate, pipes, data
  <2>18. CASE UNCHANGED vars
    BY <1>2, <2>18 DEF vars, LockIsShort, pipes, data
  <2> QED
    BY <1>2, <2>1, <2>2, <2>3, <2>4, <2>5, <2>6, <2>7, <2>8, <2>9, <2>10, <2>11, <2>12, <2>13, <2>14, <2>15, <2>16, <2>17, <2>18
    DEF Next, ScannerStep, UpdaterStep, JailStep
<1> QED
  BY <1>1, <1>2, TypeCorrect, PTL DEF Spec

-----------------------------------------------------------------------------
(* Supervision. *)

(* THEOREM: no child outlives a parent that has installed its handlers;    *)
(* the only orphans are those of a parent that died in greywatcher between *)
(* fork and sigaction.  A dead parent takes no step, and a live one dies   *)
(* with everybody or at "start".                                           *)
THEOREM NoLateOrphans == Spec => []Supervised
<1>1. Init => Supervised
  BY DEF Init, Supervised
<1>2. ASSUME TypeOK, Supervised, [Next]_vars
      PROVE  Supervised'
  <2> USE DEF Supervised
  <2>1. CASE ScannerStep
    BY <1>2, <2>1 DEF ScannerStep, ScanOpen, ScanWalk, ConfigurePf,
      ConfigureSpamd, Wake, InstallHandlers, At, pipes, data
  <2>2. ASSUME NEW p \in Locker \cup Process, NEW l, p # Scanner,
               Goto(p, l), alive' = alive
        PROVE  Supervised'
    BY <1>2, <2>2 DEF Goto, TypeOK
  <2>3. CASE GreyRead \/ GreyOpen \/ GreyUpdate
    BY <2>2, <2>3 DEF GreyRead, GreyOpen, GreyUpdate, pipes, data
  <2>4. CASE JailStep
    BY <2>2, <2>4 DEF JailStep, Select, SendTuple, Commands, ReadConfigline, pipes
  <2>5. CASE SpamlogdOpen \/ SpamlogdUpdate
    BY <2>2, <2>5 DEF SpamlogdOpen, SpamlogdUpdate, pipes, data
  <2>6. CASE GreyEof \/ \E p \in Child : Kill(p)
    BY <1>2, <2>6 DEF GreyEof, Kill, ChildDies, TakenDown, Handles, pipes, data
  <2>7. CASE Terminate
    BY <1>2, <2>7 DEF Terminate, TakenDown, Handles, pipes, data
  <2>8. CASE UNCHANGED vars
    BY <1>2, <2>8 DEF vars
  <2> QED
    BY <1>2, <2>1, <2>3, <2>4, <2>5, <2>6, <2>7, <2>8 DEF Next, UpdaterStep
<1> QED
  BY <1>1, <1>2, TypeCorrect, PTL DEF Spec
=============================================================================
