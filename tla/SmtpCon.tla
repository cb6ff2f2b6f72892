------------------------------ MODULE SmtpCon ------------------------------
(***************************************************************************)
(* The jail's table of client connections (spamd.c): accept and initcon,   *)
(* the dialogue of nextstate driven by handler (input) and handlew         *)
(* (output), closecon and the two counters it keeps.                       *)
(*                                                                         *)
(* A connection has either r armed, and waits for a command, or w armed,   *)
(* and has ol bytes of a reply to send; nextstate runs when a command is   *)
(* complete and when a reply is out, each time with the last command still *)
(* in ibuf.  The state numbers are those of the code.                      *)
(***************************************************************************)
EXTENDS Integers, FiniteSets

CONSTANTS
  MaxCon,       (* maxcon, slots for connections                            *)
  MaxBlack,     (* maxblack, -B                                             *)
  Spare,        (* 5: one byte at a time only while so many slots are left  *)
  Greylist,     (* greylist mode (no -b)                                    *)
  GreyStutter,  (* grey_stutter # 0: greylisted clients are stuttered first *)
  ReplyLen      (* bytes of a reply                                         *)

ASSUME SizesAssumption ==
  /\ MaxCon \in Nat /\ MaxBlack \in Nat /\ Spare \in Nat
  /\ ReplyLen \in Nat \ {0}
ASSUME ModesAssumption == Greylist \in BOOLEAN /\ GreyStutter \in BOOLEAN

Slot == 0 .. MaxCon - 1

(* What ibuf holds: a command with its argument, without it ("HELO?",      *)
(* "MAIL?", "RCPT?"), or with nothing after the ":" of the argument        *)
(* ("MAIL:", "RCPT:"); "end" is a piece of a message body that ends it (a  *)
(* "." line or the tenth line).                                            *)
Command == {"none", "HELO", "HELO?", "MAIL", "MAIL?", "MAIL:",
            "RCPT", "RCPT?", "RCPT:", "DATA", "QUIT", "RSET", "NOOP", "end"}

Reading == {1, 3, 5, 70}
Writing == {0, 2, 4, 6, 60, 99}
State == Reading \cup Writing \cup {98}

VARIABLES
  con,         \* the slots
  clients,     \* the counter "clients"
  blackcount   \* the counter "blackcount"

vars == <<con, clients, blackcount>>

Con == [fd : BOOLEAN,         \* fd # -1: the slot is in use
        state : State, laststate : State,
        r : BOOLEAN, w : BOOLEAN,
        ol : 0 .. ReplyLen,
        ibuf : Command,
        black : BOOLEAN,      \* blacklists # NULL
        stutter : BOOLEAN,    \* stutter # 0
        mail : BOOLEAN, rcpt : BOOLEAN,   \* mail[0] # 0, rcpt[0] # 0
        reported : BOOLEAN]   \* history: a tuple went to the updater

TypeOK ==
  /\ con \in [Slot -> Con]
  /\ clients \in Int /\ blackcount \in Int

(* A free slot.  initcon zeroes whatever closecon leaves in it.            *)
NoCon == [fd |-> FALSE, state |-> 0, laststate |-> 0, r |-> FALSE, w |-> FALSE,
          ol |-> 0, ibuf |-> "none", black |-> FALSE, stutter |-> FALSE,
          mail |-> FALSE, rcpt |-> FALSE, reported |-> FALSE]

Init ==
  /\ con = [c \in Slot |-> NoCon]
  /\ clients = 0 /\ blackcount = 0

Open == {c \in Slot : con[c].fd}
Black == {c \in Open : con[c].black}
Tarpit == {c \in Black : con[c].stutter}

-----------------------------------------------------------------------------
(* nextstate, label by label. *)

Grey(cp) == Greylist /\ ~cp.black

(* A reply goes out; or input is awaited, from the start of ibuf.          *)
Reply(cp, st) ==
  [cp EXCEPT !.laststate = cp.state, !.state = st, !.w = TRUE, !.ol = ReplyLen]
Listen(cp, st) ==
  [cp EXCEPT !.laststate = cp.state, !.state = st, !.r = TRUE, !.ibuf = "none"]

(* spam:  DATA, and what is not understood: answered, then back to where   *)
(* the connection read the command.  A greylisted client gets its 451 now. *)
(* Fault variants: blacklisted clients are not told from greylisted ones,  *)
(* in either direction.                                                    *)
DataOfAnybody(cp) == [Reply(cp, 60) EXCEPT !.laststate = cp.laststate]
Data(cp) ==
  IF Grey(cp)
  THEN [Reply(cp, 99) EXCEPT !.laststate = 98]
  ELSE [Reply(cp, 60) EXCEPT !.laststate = cp.laststate]

(* Fault variant: back to the state in which the command was read.         *)
UnrecognizedStays(cp) == [Reply(cp, cp.state) EXCEPT !.laststate = cp.laststate]
Unrecognized(cp) == [Reply(cp, cp.laststate) EXCEPT !.laststate = cp.laststate]

(* setlog: whether there is an address afterwards.  What follows the ":"   *)
(* replaces it, even nothing; without a ":" it stays what it was.          *)
setlog(was, command) ==
  command \in {"MAIL", "RCPT"} \/ (was /\ command \notin {"MAIL:", "RCPT:"})

(* rcpt:  a greylisted client's tuple goes to the updater once it has both *)
(* addresses.  Fault variant: the tuple is considered before the recipient *)
(* is taken.                                                               *)
RcptLate(cp) ==
  [Reply(cp, 6) EXCEPT
     !.rcpt = setlog(cp.rcpt, cp.ibuf),
     !.reported = cp.reported \/ (cp.mail /\ cp.rcpt /\ Grey(cp))]
Rcpt(cp) ==
  LET rcpt == setlog(cp.rcpt, cp.ibuf) IN
  [Reply(cp, 6) EXCEPT
     !.rcpt = rcpt,
     !.reported = cp.reported \/ (cp.mail /\ rcpt /\ Grey(cp))]

Spam(cp) == IF cp.ibuf = "DATA" THEN Data(cp) ELSE Unrecognized(cp)
RcptOrSpam(cp) == IF cp.ibuf \in {"RCPT", "RCPT?", "RCPT:"} THEN Rcpt(cp) ELSE Spam(cp)
MailOrRcpt(cp) ==
  IF cp.ibuf \in {"MAIL", "MAIL?", "MAIL:"}
  THEN [Reply(cp, 4) EXCEPT !.mail = setlog(cp.mail, cp.ibuf)]
  ELSE RcptOrSpam(cp)

(* Every state but 99, in which nextstate closes the connection.           *)
nextstate(cp) ==
  IF cp.ibuf = "QUIT" THEN Reply(cp, 99)
  ELSE IF cp.ibuf = "RSET" /\ cp.state \in 3 .. 49 THEN Reply(cp, 2)
  ELSE CASE cp.state = 0 -> Listen(cp, 1)
         [] cp.state = 1 -> IF cp.ibuf = "HELO" THEN Reply(cp, 2)
                            ELSE IF cp.ibuf = "HELO?" THEN Reply(cp, 0)
                            ELSE MailOrRcpt(cp)
         [] cp.state = 2 -> Listen(cp, 3)
         [] cp.state = 3 -> MailOrRcpt(cp)
         [] cp.state = 4 -> Listen(cp, 5)
         [] cp.state = 5 -> RcptOrSpam(cp)
         [] cp.state = 6 -> Listen(cp, 5)
         [] cp.state = 60 -> Listen(cp, 70)
         [] cp.state = 70 -> IF cp.ibuf = "end"
                             THEN [Reply(cp, 99) EXCEPT !.laststate = 98]
                             ELSE [cp EXCEPT !.r = TRUE, !.ibuf = "none"]

-----------------------------------------------------------------------------
(* closecon.  Fault variant: it does not look at the lists.                *)
CloseconWhite(c) ==
  /\ con' = [con EXCEPT ![c] = NoCon]
  /\ clients' = clients - 1
  /\ UNCHANGED blackcount
closecon(c) ==
  /\ con' = [con EXCEPT ![c] = NoCon]
  /\ clients' = clients - 1
  /\ blackcount' = IF con[c].black THEN blackcount - 1 ELSE blackcount

Advance(c, cp) ==
  IF cp.state = 99 THEN closecon(c)
  ELSE con' = [con EXCEPT ![c] = nextstate(cp)] /\ UNCHANGED <<clients, blackcount>>

(* Whether initcon stutters at a client, with blackcount already counting  *)
(* it.  Fault variant: the boundary is off by one.                         *)
StuttersAtOneMore(black, count) ==
  /\ black \/ ~Greylist \/ GreyStutter
  /\ ~(black /\ Greylist /\ count > MaxBlack + 1)
StuttersAt(black, count) ==
  /\ black \/ ~Greylist \/ GreyStutter
  /\ ~(black /\ Greylist /\ count > MaxBlack)

(* main accepts and runs initcon on the first free slot; without one it    *)
(* closes the new connection at once.  black: the client is on a list now. *)
Accept(black) ==
  \E c \in Slot \ Open :
    /\ \A d \in Slot \ Open : c <= d
    /\ clients' = clients + 1
    /\ blackcount' = IF black THEN blackcount + 1 ELSE blackcount
    /\ con' = [con EXCEPT ![c] =
         [NoCon EXCEPT !.fd = TRUE, !.w = TRUE, !.ol = ReplyLen, !.black = black,
                       !.stutter = StuttersAt(black, blackcount')]]

(* handler, when a line is complete or ibuf is full.                       *)
handler(c, command) ==
  /\ con[c].fd /\ con[c].r
  /\ Advance(c, [con[c] EXCEPT !.r = FALSE, !.ibuf = command])

(* What is left to send.  Fault variant: the "\r" that handlew puts before  *)
(* a "\n" is counted as part of the reply.                                 *)
SentWithCr(cp, stutter, left) ==
  [cp EXCEPT !.stutter = stutter, !.ol = left - 1, !.w = left # 0]
Sent(cp, stutter, left) ==
  [cp EXCEPT !.stutter = stutter, !.ol = left, !.w = left # 0]

(* handlew writes n bytes: one, or as many as the socket takes.  over: the *)
(* first grey_stutter seconds have passed.                                 *)
handlew(c, n, over) ==
  LET stutter == con[c].stutter /\ ~(over /\ Grey(con[c]))
      left == con[c].ol - n
      cp == Sent(con[c], stutter, left)
  IN
  /\ con[c].fd /\ con[c].w
  /\ n \in 1 .. con[c].ol
  /\ stutter /\ clients + Spare < MaxCon => n = 1
  /\ IF left = 0 THEN Advance(c, cp)
     ELSE con' = [con EXCEPT ![c] = cp] /\ UNCHANGED <<clients, blackcount>>

(* The client goes away, read or write fails, or main finds the connection *)
(* armed for longer than MAXTIME.                                          *)
Drop(c) ==
  /\ con[c].fd /\ (con[c].r \/ con[c].w)
  /\ closecon(c)

Next ==
  \/ \E black \in BOOLEAN : Accept(black)
  \/ \E c \in Slot :
       \/ \E command \in Command \ {"none"} : handler(c, command)
       \/ \E n \in 1 .. ReplyLen, over \in BOOLEAN : handlew(c, n, over)
       \/ Drop(c)

Spec == Init /\ [][Next]_vars

-----------------------------------------------------------------------------
(* Safety. *)

(* Every way out of a connection is counted: the counters are the numbers  *)
(* of connections and of blacklisted ones, so that maxblack and the switch *)
(* from stuttering to full writes mean what they say.                      *)
Counters ==
  /\ clients = Cardinality(Open)
  /\ blackcount = Cardinality(Black)

(* The state in which an unrecognized command found the connection: the    *)
(* last reply before it, to which nextstate goes back.                     *)
Asked(s) == CASE s = 1 -> {0} [] s = 3 -> {2} [] s = 5 -> {4, 6} [] s = 70 -> {60}

(* The dialogue cannot get stuck or run ahead: a connection that reads is  *)
(* in a reading state with nothing to send, reached from a reply that      *)
(* nextstate can return to; one that writes is in a writing state with     *)
(* something to send; and there is no third kind.                          *)
Asks(cp) ==
  /\ cp.r /\ ~cp.w /\ cp.ol = 0
  /\ cp.state \in Reading /\ cp.laststate \in Asked(cp.state)
Answers(cp) ==
  /\ cp.w /\ ~cp.r /\ cp.ol > 0
  /\ cp.state \in Writing

Dialogue == \A c \in Open : Asks(con[c]) \/ Answers(con[c])

(* spamd.8, -B: in greylist mode at most maxblack blacklisted connections  *)
(* are stuttered at, whatever comes and goes in between.                   *)
StutterBound == Greylist => Cardinality(Tarpit) <= MaxBlack

(* A greylisted client never gets as far as sending a message body: it has *)
(* its 451 before.                                                         *)
GreyNeverSends ==
  \A c \in Open : Grey(con[c]) => con[c].state \notin {60, 70}

(* A recipient is accepted from a greylisted client that named a sender    *)
(* only together with a report of the tuple, without which the client      *)
(* would wait for ever; what blacklisted clients try is never reported.    *)
AcceptedIsReported ==
  \A c \in Open :
    LET cp == con[c]
        accepted == cp.state = 6 \/ (cp.state = 5 /\ cp.laststate = 6)
    IN
    /\ accepted /\ cp.mail /\ cp.rcpt /\ Grey(cp) => cp.reported
    /\ cp.reported => Grey(cp)
=============================================================================
