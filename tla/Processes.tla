----------------------------- MODULE Processes -----------------------------
(***************************************************************************)
(* The three processes of spamd in greylisting mode and what connects      *)
(* them.  main (spamd.c) makes two pipes and forks the jail, the process   *)
(* that talks to clients; the parent runs greywatcher (grey.c), which      *)
(* forks the updater (greyreader) and then scans (greyscanner):            *)
(*                                                                         *)
(*      jail --- greypipe ---> updater --- database lock --- scanner       *)
(*       ^                                                      |          *)
(*       +----------------------- trappipe ---------------------+          *)
(*                                                                         *)
(* A circle of blocking writes and a lock, where each process can wait for *)
(* the next.  The parent also supervises: a signal to it, and a child that *)
(* dies is one, must take all three down.                                  *)
(*                                                                         *)
(* Of the database only the set of trapped hosts matters here; Greylist    *)
(* models how it changes.                                                  *)
(***************************************************************************)
EXTENDS Naturals, Sequences

CONSTANTS
  Ip,         (* addresses of sending hosts                                 *)
  GreyCap,    (* tuples that fit in greypipe                                *)
  TrapCap,    (* lines that fit in trappipe                                 *)
  Killable    (* processes that something outside may kill                  *)

Scanner == "scanner"   \* the parent
Updater == "updater"
Jail == "jail"
Spamlogd == "spamlogd" \* not a child: it only competes for the lock
Process == {Scanner, Updater, Jail}
Child == {Updater, Jail}
Locker == {Scanner, Updater, Spamlogd}
Free == "free"

ASSUME CapAssumption == GreyCap \in Nat \ {0} /\ TrapCap \in Nat \ {0}
ASSUME KillableAssumption == Killable \subseteq Process

VARIABLES
  pc,        \* where each process is
  lock,      \* who holds the O_EXLOCK lock of the database
  trapped,   \* hosts with a live trap entry in the database
  traplist,  \* what the last walk of the scanner found
  greypipe,  \* tuples in greypipe
  trappipe,  \* lines in trappipe
  trapbuf,   \* lines in the stdio buffer of the jail's trapcfg
  readable,  \* whether the jail's last select reported trapfd
  greytrap,  \* the list spamd-greytrap of the jail
  alive      \* the processes that run

pipes == <<greypipe, trappipe, trapbuf, readable, greytrap>>
data == <<trapped, traplist>>
vars == <<pc, lock, data, pipes, alive>>

Label == {"start", "sleep", "open", "walk", "pf", "send",
          "read", "update", "idle", "select", "smtp", "write", "trap"}

TypeOK ==
  /\ pc \in [Locker \cup Process -> Label]
  /\ lock \in Locker \cup {Free}
  /\ trapped \subseteq Ip /\ traplist \subseteq Ip
  /\ greypipe \in 0 .. GreyCap
  /\ trappipe \in Seq(SUBSET Ip) /\ Len(trappipe) <= TrapCap
  /\ trapbuf \in Seq(SUBSET Ip)
  /\ readable \in BOOLEAN
  /\ greytrap \subseteq Ip
  /\ alive \subseteq Process

Init ==
  /\ pc = [p \in Locker \cup Process |->
             CASE p = Scanner -> "start" [] p = Updater -> "read"
               [] p = Jail -> "select" [] p = Spamlogd -> "idle"]
  /\ lock = Free
  /\ trapped = {} /\ traplist = {}
  /\ greypipe = 0
  /\ trappipe = <<>> /\ trapbuf = <<>> /\ readable = FALSE
  /\ greytrap = {}
  /\ alive = Process

At(p, label) == pc[p] = label /\ (p \in Process => p \in alive)
Goto(p, label) == pc' = [pc EXCEPT ![p] = label]

(* dbopen with O_EXLOCK, and db->close.                                    *)
Acquire(p) == lock = Free /\ lock' = p
Release(p) == lock' = Free

-----------------------------------------------------------------------------
(* The scanner: greywatcher installs its signal handlers after the fork;   *)
(* greyscan takes the lock, walks, gives the lock up, runs pfctl, writes   *)
(* the trapped hosts to the jail; greyscanner sleeps.                      *)

InstallHandlers ==
  /\ At(Scanner, "start")
  /\ Goto(Scanner, "sleep")
  /\ UNCHANGED <<lock, data, pipes, alive>>

Wake ==
  /\ At(Scanner, "sleep")
  /\ Goto(Scanner, "open")
  /\ UNCHANGED <<lock, data, pipes, alive>>

ScanOpen ==
  /\ At(Scanner, "open")
  /\ Acquire(Scanner)
  /\ Goto(Scanner, "walk")
  /\ UNCHANGED <<data, pipes, alive>>

(* The walk: expired traps go, the others are listed, the lock is released.*)
(* Fault variant: the lock is kept until the line is sent.                 *)
ScanWalkLocked ==
  /\ At(Scanner, "walk")
  /\ trapped' \in SUBSET trapped
  /\ traplist' = trapped'
  /\ Goto(Scanner, "pf")
  /\ UNCHANGED <<lock, pipes, alive>>
ScanWalk ==
  /\ At(Scanner, "walk")
  /\ trapped' \in SUBSET trapped
  /\ traplist' = trapped'
  /\ Release(Scanner)
  /\ Goto(Scanner, "pf")
  /\ UNCHANGED <<pipes, alive>>

(* configure_pf forks pfctl and waits for it; while it does, SIGCHLD has   *)
(* its default disposition.                                                *)
ConfigurePf ==
  /\ At(Scanner, "pf")
  /\ Goto(Scanner, "send")
  /\ UNCHANGED <<lock, data, pipes, alive>>

(* configure_spamd: a write that waits for room, or fails when nobody can  *)
(* read any more (SIGPIPE is ignored).  lock is released here only in the  *)
(* fault variant that still holds it.                                      *)
ConfigureSpamd ==
  /\ At(Scanner, "send")
  /\ Jail \in alive => Len(trappipe) < TrapCap
  /\ trappipe' = IF Jail \in alive THEN Append(trappipe, traplist) ELSE trappipe
  /\ traplist' = {}
  /\ lock' = IF lock = Scanner THEN Free ELSE lock
  /\ Goto(Scanner, "sleep")
  /\ UNCHANGED <<trapped, greypipe, trapbuf, readable, greytrap, alive>>

-----------------------------------------------------------------------------
(* The updater: greyreader reads a tuple, greyupdate takes the lock for it *)
(* and may trap its sender.                                                *)

GreyRead ==
  /\ At(Updater, "read")
  /\ greypipe > 0
  /\ greypipe' = greypipe - 1
  /\ Goto(Updater, "open")
  /\ UNCHANGED <<lock, data, trappipe, trapbuf, readable, greytrap, alive>>

GreyOpen ==
  /\ At(Updater, "open")
  /\ Acquire(Updater)
  /\ Goto(Updater, "update")
  /\ UNCHANGED <<data, pipes, alive>>

GreyUpdate ==
  /\ At(Updater, "update")
  /\ \E hit \in {{}} \cup {{ip} : ip \in Ip} : trapped' = trapped \cup hit
  /\ Release(Updater)
  /\ Goto(Updater, "read")
  /\ UNCHANGED <<traplist, pipes, alive>>

(* spamlogd: dbupdate for a connection that pf passed.                     *)
SpamlogdOpen ==
  /\ At(Spamlogd, "idle")
  /\ Acquire(Spamlogd)
  /\ Goto(Spamlogd, "update")
  /\ UNCHANGED <<data, pipes, alive>>

SpamlogdUpdate ==
  /\ At(Spamlogd, "update")
  /\ \E ip \in Ip : trapped' = trapped \ {ip}
  /\ Release(Spamlogd)
  /\ Goto(Spamlogd, "idle")
  /\ UNCHANGED <<traplist, pipes, alive>>

-----------------------------------------------------------------------------
(* The jail: one round of main's loop is select, the clients' commands     *)
(* (nextstate writes a tuple for each RCPT of a greylisted one) and then   *)
(* trapfd, as select reported it before.                                   *)

Select ==
  /\ At(Jail, "select")
  /\ readable' = (trappipe # <<>> \/ Scanner \notin alive)
  /\ Goto(Jail, "smtp")
  /\ UNCHANGED <<lock, data, greypipe, trappipe, trapbuf, greytrap, alive>>

(* The clients decide whether there is a RCPT to report; more of them in a *)
(* round would only wait again.                                            *)
Commands ==
  /\ At(Jail, "smtp")
  /\ \E label \in {"write", "trap"} : Goto(Jail, label)
  /\ UNCHANGED <<lock, data, pipes, alive>>

(* A write that waits for room, or fails when there is no reader.  Fault   *)
(* variant: it does not wait.                                              *)
SendTupleAnyway ==
  /\ At(Jail, "write")
  /\ greypipe' = IF Updater \in alive THEN greypipe + 1 ELSE greypipe
  /\ Goto(Jail, "trap")
  /\ UNCHANGED <<lock, data, trappipe, trapbuf, readable, greytrap, alive>>
SendTuple ==
  /\ At(Jail, "write")
  /\ Updater \in alive => greypipe < GreyCap
  /\ greypipe' = IF Updater \in alive THEN greypipe + 1 ELSE greypipe
  /\ Goto(Jail, "trap")
  /\ UNCHANGED <<lock, data, trappipe, trapbuf, readable, greytrap, alive>>

(* read_configline takes ONE line.  fgetln moves the whole pipe into the   *)
(* stdio buffer when that holds no line, and select does not see the lines *)
(* that stay there.  parse_configline rejects a line without addresses and *)
(* then leaves the list as it was.  Fault variant: a list of that name is  *)
(* not replaced.                                                           *)
Buffered == IF trapbuf = <<>> THEN trappipe ELSE trapbuf

ParsedOnce(line) == IF greytrap = {} THEN line ELSE greytrap
Parsed(line) == IF line = {} THEN greytrap ELSE line

ReadConfigline ==
  /\ At(Jail, "trap")
  /\ Goto(Jail, "select")
  /\ IF readable /\ Buffered # <<>>
     THEN /\ greytrap' = Parsed(Head(Buffered))
          /\ trapbuf' = Tail(Buffered)
          /\ trappipe' = IF trapbuf = <<>> THEN <<>> ELSE trappipe
     ELSE UNCHANGED <<greytrap, trapbuf, trappipe>>
  /\ UNCHANGED <<lock, data, greypipe, readable, alive>>

-----------------------------------------------------------------------------
(* Deaths and signals.                                                     *)

(* A process that dies drops its lock.                                     *)
Unlock(dead) == lock' = IF lock \in dead THEN Free ELSE lock

(* Where the parent has sig_term_chld installed.                           *)
Handles(sig) ==
  pc[Scanner] \notin (IF sig = "SIGCHLD" THEN {"start", "pf"} ELSE {"start"})

(* Whom a signal to the parent kills, with its handler and without it.     *)
(* Fault variant: the handler forgets the jail.                            *)
TakenDownNotJail(sig) ==
  IF Handles(sig) THEN alive \ {Jail}
  ELSE IF sig = "SIGCHLD" THEN {} ELSE {Scanner}
TakenDown(sig) ==
  IF Handles(sig) THEN alive
  ELSE IF sig = "SIGCHLD" THEN {} ELSE {Scanner}

(* A child dies: killed from outside, or the updater at the end of its     *)
(* pipe (greyreader returns, the child exits).  A live parent gets SIGCHLD.*)
ChildDies(p) ==
  LET dead == {p} \cup (IF Scanner \in alive THEN TakenDown("SIGCHLD") ELSE {}) IN
  /\ alive' = alive \ dead
  /\ Unlock(dead)
  /\ UNCHANGED <<pc, data, pipes>>

Kill(p) ==
  /\ p \in alive \cap Killable \cap Child
  /\ ChildDies(p)

GreyEof ==
  /\ At(Updater, "read")
  /\ greypipe = 0 /\ Jail \notin alive
  /\ ChildDies(Updater)

(* SIGTERM, SIGHUP or SIGINT to the parent.                                *)
Terminate ==
  LET dead == TakenDown("SIGTERM") IN
  /\ Scanner \in alive \cap Killable
  /\ alive' = alive \ dead
  /\ Unlock(dead)
  /\ UNCHANGED <<pc, data, pipes>>

ScannerStep == ScanOpen \/ ScanWalk \/ ConfigurePf \/ ConfigureSpamd \/ Wake \/ InstallHandlers
UpdaterStep == GreyRead \/ GreyOpen \/ GreyUpdate \/ GreyEof
JailStep == Select \/ Commands \/ SendTuple \/ ReadConfigline

Next ==
  \/ ScannerStep \/ UpdaterStep \/ JailStep
  \/ SpamlogdOpen \/ SpamlogdUpdate
  \/ \E p \in Child : Kill(p)
  \/ Terminate

Spec == Init /\ [][Next]_vars

(* Every process goes on while it can; flock wakes the waiters, so that no *)
(* process waits for ever for a lock that is released again and again.     *)
Fairness ==
  /\ WF_vars(ScannerStep) /\ SF_vars(ScanOpen)
  /\ WF_vars(UpdaterStep) /\ SF_vars(GreyOpen)
  /\ WF_vars(JailStep)
  /\ WF_vars(SpamlogdUpdate)

FairSpec == Spec /\ Fairness

-----------------------------------------------------------------------------
(* Safety. *)

(* The lock of the database is held only by a live process and only across *)
(* steps that wait for nobody: never while its holder runs pfctl or waits  *)
(* for room in a pipe (greyscan closes the database before configure_pf).  *)
LockIsShort ==
  \A p \in Locker :
    lock = p => /\ pc[p] \in {"walk", "update"}
                /\ p \in Process => p \in alive

(* Once greywatcher has its handlers, no child outlives the parent.        *)
Supervised ==
  Scanner \notin alive /\ pc[Scanner] # "start" => alive = {}

-----------------------------------------------------------------------------
(* Liveness. *)

Home == [p \in Process |-> CASE p = Scanner -> "sleep"
                             [] p = Updater -> "read"
                             [] p = Jail -> "select"]

(* No process waits for ever on the circle of pipes and the lock: each one *)
(* comes back to the top of its loop again and again.                      *)
EveryoneComesRound ==
  \A p \in Process : []<>(At(p, Home[p]) \/ p \notin alive)

(* When the trapped hosts stay the same, and there are some, the jail's    *)
(* list spamd-greytrap becomes that set and stays it, although the jail    *)
(* takes one line per round and select is blind to what stdio has buffered.*)
GreytrapConverges ==
  \A S \in (SUBSET Ip) \ {{}} : <>[](trapped = S) => <>[](greytrap = S)

-----------------------------------------------------------------------------
(* What comments and manual say and the code does not do. *)

(* spamd.8: a host that mails a spamtrap is blacklisted for 24 hours; so   *)
(* the jail lets go of a host that stays without a trap entry.             *)
TrapIsReleased ==
  \A ip \in Ip : <>[](ip \notin trapped) => <>[](ip \notin greytrap)
=============================================================================
