---------------------------- MODULE SmtpConProof ----------------------------
(* Proofs about SmtpCon, for every number of slots, every maxblack, both   *)
(* modes and replies of any length.                                        *)
EXTENDS SmtpCon, FiniteSetTheorems, TLAPS

USE SizesAssumption, ModesAssumption

-----------------------------------------------------------------------------
(* One connection: what nextstate does to it. *)

(* nextstate is called with a command that was read, or with a reply out.  *)
Due(cp) ==
  /\ cp \in Con /\ cp.fd /\ ~cp.r /\ ~cp.w /\ cp.ol = 0
  /\ \/ cp.state \in Reading /\ cp.laststate \in Asked(cp.state)
     \/ cp.state \in Writing \ {99}

(* LEMMA: a reply that may be returned to, or the last one, is an answer.  *)
LEMMA ReplyAnswers ==
  ASSUME NEW cp \in Con, cp.fd, ~cp.r, NEW st \in Writing, NEW last \in State
  PROVE  LET rp == [Reply(cp, st) EXCEPT !.laststate = last] IN
         /\ Reply(cp, st) \in Con /\ Answers(Reply(cp, st))
         /\ rp \in Con /\ Answers(rp)
         /\ Reply(cp, st).fd /\ Reply(cp, st).black = cp.black
         /\ Reply(cp, st).stutter = cp.stutter
         /\ rp.fd /\ rp.black = cp.black /\ rp.stutter = cp.stutter
<1>1. ReplyLen \in 0 .. ReplyLen /\ ReplyLen > 0
  OBVIOUS
<1>2. st \in State
  BY DEF State
<1>3. Reply(cp, st) \in Con
  BY <1>1, <1>2 DEF Reply, Con
<1>4. /\ Reply(cp, st).w /\ ~Reply(cp, st).r /\ Reply(cp, st).ol = ReplyLen
      /\ Reply(cp, st).state = st /\ Reply(cp, st).fd
      /\ Reply(cp, st).black = cp.black /\ Reply(cp, st).stutter = cp.stutter
  BY DEF Reply, Con
<1> DEFINE rp == [Reply(cp, st) EXCEPT !.laststate = last]
<1>5. rp \in Con
  BY <1>3 DEF Con
<1>6. /\ rp.w /\ ~rp.r /\ rp.ol = ReplyLen /\ rp.state = st /\ rp.fd
      /\ rp.black = cp.black /\ rp.stutter = cp.stutter
  BY <1>3, <1>4 DEF Con
<1> HIDE DEF rp
<1>7. Answers(Reply(cp, st)) /\ Answers(rp)
  BY <1>1, <1>4, <1>6 DEF Answers
<1> QED BY <1>3, <1>4, <1>5, <1>6, <1>7 DEF rp

(* LEMMA: after a reply the connection listens in a state that remembers   *)
(* that reply.                                                             *)
LEMMA ListenAsks ==
  ASSUME NEW cp \in Con, cp.fd, ~cp.w, cp.ol = 0, NEW st \in Reading,
         cp.state \in Asked(st)
  PROVE  LET lp == Listen(cp, st) IN
         /\ lp \in Con /\ Asks(lp)
         /\ lp.fd /\ lp.black = cp.black /\ lp.stutter = cp.stutter
<1>1. st \in State
  BY DEF State
<1> DEFINE lp == Listen(cp, st)
<1>2. lp \in Con
  BY <1>1 DEF Listen, Con, Command
<1>3. /\ lp.r /\ ~lp.w /\ lp.ol = 0 /\ lp.state = st /\ lp.laststate = cp.state
      /\ lp.fd /\ lp.black = cp.black /\ lp.stutter = cp.stutter
  BY DEF Listen, Con
<1> HIDE DEF lp
<1>4. Asks(lp)
  BY <1>3 DEF Asks
<1> QED BY <1>2, <1>3, <1>4 DEF lp

Fine(cp, np) ==
  /\ np \in Con /\ (Asks(np) \/ Answers(np))
  /\ np.fd /\ np.black = cp.black /\ np.stutter = cp.stutter

(* LEMMA: the part of the dialogue after the label mail.                   *)
LEMMA MailIsFine ==
  ASSUME NEW cp, Due(cp), cp.state \in Reading
  PROVE  Fine(cp, MailOrRcpt(cp)) /\ Fine(cp, RcptOrSpam(cp))
<1> USE DEF Due
<1>1. cp.laststate \in Writing /\ cp.laststate \in State /\ cp.state \in State
  BY DEF Asked, Reading, Writing, State, Con
<1>2. Fine(cp, Unrecognized(cp))
  BY <1>1, ReplyAnswers DEF Unrecognized, Fine
<1>3. Fine(cp, Data(cp))
  BY <1>1, ReplyAnswers DEF Data, Fine, Writing, State
<1>4. Fine(cp, Rcpt(cp))
  <2>1. Fine(cp, Reply(cp, 6))
    BY <1>1, ReplyAnswers DEF Fine, Writing
  <2> DEFINE rcpt == setlog(cp.rcpt, cp.ibuf)
             reported == cp.reported \/ (cp.mail /\ rcpt /\ Grey(cp))
             np == [Reply(cp, 6) EXCEPT !.rcpt = rcpt, !.reported = reported]
  <2>2. Rcpt(cp) = np
    BY DEF Rcpt
  <2>3. rcpt \in BOOLEAN /\ reported \in BOOLEAN
    BY DEF Con, Grey, setlog
  <2> HIDE DEF rcpt, reported
  <2>4. np \in Con
    <3>1. ASSUME NEW rp \in Con, NEW a \in BOOLEAN, NEW b \in BOOLEAN
          PROVE  [rp EXCEPT !.rcpt = a, !.reported = b] \in Con
      <4>1. [rp EXCEPT !.rcpt = a] \in Con
        BY DEF Con
      <4>2. ASSUME NEW sp \in Con PROVE [sp EXCEPT !.reported = b] \in Con
        BY DEF Con
      <4>3. [rp EXCEPT !.rcpt = a, !.reported = b]
              = [[rp EXCEPT !.rcpt = a] EXCEPT !.reported = b]
        BY DEF Con
      <4> QED BY <4>1, <4>2, <4>3
    <3> QED BY <2>1, <2>3, <3>1 DEF Fine
  <2>5. /\ np.r = Reply(cp, 6).r /\ np.w = Reply(cp, 6).w
        /\ np.ol = Reply(cp, 6).ol /\ np.state = Reply(cp, 6).state
        /\ np.laststate = Reply(cp, 6).laststate /\ np.fd = Reply(cp, 6).fd
        /\ np.black = Reply(cp, 6).black /\ np.stutter = Reply(cp, 6).stutter
    BY <2>1 DEF Fine, Con
  <2> HIDE DEF np
  <2> QED
    BY <2>1, <2>2, <2>4, <2>5 DEF Fine, Asks, Answers
<1>5. Fine(cp, [Reply(cp, 4) EXCEPT !.mail = setlog(cp.mail, cp.ibuf)])
  <2>1. Fine(cp, Reply(cp, 4))
    BY <1>1, ReplyAnswers DEF Fine, Writing
  <2>2. setlog(cp.mail, cp.ibuf) \in BOOLEAN
    BY DEF Con, setlog
  <2> QED
    BY <2>1, <2>2 DEF Fine, Con, Asks, Answers
<1> QED
  BY <1>2, <1>3, <1>4, <1>5 DEF MailOrRcpt, RcptOrSpam, Spam

(* LEMMA: nextstate leaves every connection listening or answering, and    *)
(* changes neither its lists nor its stutter.                              *)
LEMMA NextstateIsFine ==
  ASSUME NEW cp, Due(cp)
  PROVE  Fine(cp, nextstate(cp))
<1> USE DEF Due
<1>1. \A st \in Writing : Fine(cp, Reply(cp, st))
  BY ReplyAnswers DEF Fine, State
<1>2. \A st \in Writing : Fine(cp, [Reply(cp, st) EXCEPT !.laststate = 98])
  BY ReplyAnswers DEF Fine, State
<1>3. 2 \in Writing /\ 0 \in Writing /\ 99 \in Writing
  BY DEF Writing
<1>4. CASE cp.ibuf = "QUIT" \/ (cp.ibuf = "RSET" /\ cp.state \in 3 .. 49)
  BY <1>1, <1>3, <1>4 DEF nextstate
<1>5. CASE ~(cp.ibuf = "QUIT" \/ (cp.ibuf = "RSET" /\ cp.state \in 3 .. 49))
  <2>1. CASE cp.state \in Writing \ {99}
    <3>1. \A st \in Reading : cp.state \in Asked(st) => Fine(cp, Listen(cp, st))
      BY ListenAsks DEF Fine
    <3>2. CASE cp.state = 0
      BY <1>5, <3>1, <3>2 DEF nextstate, Asked, Reading
    <3>3. CASE cp.state = 2
      BY <1>5, <3>1, <3>3 DEF nextstate, Asked, Reading
    <3>4. CASE cp.state \in {4, 6}
      BY <1>5, <3>1, <3>4 DEF nextstate, Asked, Reading
    <3>5. CASE cp.state = 60
      BY <1>5, <3>1, <3>5 DEF nextstate, Asked, Reading
    <3> QED BY <2>1, <3>2, <3>3, <3>4, <3>5 DEF Writing
  <2>2. CASE cp.state \in {1, 3, 5}
    BY <1>1, <1>3, <1>5, <2>2, MailIsFine DEF nextstate, Reading
  <2>3. CASE cp.state = 70
    <3>1. CASE cp.ibuf = "end"
      BY <1>2, <1>3, <1>5, <2>3, <3>1 DEF nextstate
    <3>2. CASE cp.ibuf # "end"
      <4> DEFINE np == [cp EXCEPT !.r = TRUE, !.ibuf = "none"]
      <4>1. nextstate(cp) = np
        BY <1>5, <2>3, <3>2 DEF nextstate
      <4>2. /\ np \in Con /\ np.r /\ np.w = cp.w /\ np.ol = cp.ol
            /\ np.state = cp.state /\ np.laststate = cp.laststate /\ np.fd
            /\ np.black = cp.black /\ np.stutter = cp.stutter
        BY DEF Con, Command
      <4>3. 70 \in Reading /\ cp.laststate \in Asked(70)
        BY <2>3 DEF Reading, Writing
      <4> HIDE DEF np
      <4> QED
        BY <4>1, <4>2, <4>3, <2>3 DEF Fine, Asks
    <3> QED BY <3>1, <3>2
  <2> QED BY <2>1, <2>2, <2>3 DEF Reading, Writing
<1> QED BY <1>4, <1>5

-----------------------------------------------------------------------------
(* The table and its counters. *)

(* LEMMA: the slots that are open, and those among them that are           *)
(* blacklisted or stuttered at, are finitely many.                         *)
LEMMA SetsAreFinite ==
  /\ IsFiniteSet(Open) /\ IsFiniteSet(Black) /\ IsFiniteSet(Tarpit)
  /\ Cardinality(Open) \in Nat /\ Cardinality(Black) \in Nat
  /\ Cardinality(Tarpit) \in Nat /\ Cardinality(Tarpit) <= Cardinality(Black)
<1>1. IsFiniteSet(Slot)
  BY FS_Interval DEF Slot
<1>2. Open \subseteq Slot /\ Black \subseteq Open /\ Tarpit \subseteq Black
  BY DEF Open, Black, Tarpit
<1>3. IsFiniteSet(Open) /\ IsFiniteSet(Black) /\ IsFiniteSet(Tarpit)
  BY <1>1, <1>2, FS_Subset
<1> QED
  BY <1>2, <1>3, FS_CardinalityType, FS_Subset

(* LEMMA: a free slot has its type.                                        *)
LEMMA FreeSlot == NoCon \in Con
  BY DEF NoCon, Con, State, Reading, Writing, Command

(* LEMMA: what initcon makes of it.                                        *)
LEMMA NewSlot ==
  ASSUME NEW black \in BOOLEAN, NEW s \in BOOLEAN
  PROVE  LET np == [NoCon EXCEPT !.fd = TRUE, !.w = TRUE, !.ol = ReplyLen,
                                 !.black = black, !.stutter = s] IN
         /\ np \in Con /\ np.fd /\ np.w /\ ~np.r /\ np.ol = ReplyLen
         /\ np.state = 0 /\ np.black = black /\ np.stutter = s
<1> DEFINE p1 == [NoCon EXCEPT !.fd = TRUE, !.w = TRUE, !.ol = ReplyLen]
           p2 == [p1 EXCEPT !.black = black]
           p3 == [p2 EXCEPT !.stutter = s]
           np == [NoCon EXCEPT !.fd = TRUE, !.w = TRUE, !.ol = ReplyLen,
                               !.black = black, !.stutter = s]
<1>1. ReplyLen \in 0 .. ReplyLen
  OBVIOUS
<1>2. ~NoCon.r /\ NoCon.state = 0
  BY DEF NoCon
<1>3. /\ p1 \in Con /\ p1.fd /\ p1.w /\ ~p1.r /\ p1.ol = ReplyLen
      /\ p1.state = 0
  BY <1>1, <1>2, FreeSlot DEF Con
<1>4. np = [[p1 EXCEPT !.black = black] EXCEPT !.stutter = s]
  BY FreeSlot DEF Con
<1> HIDE DEF p1
<1>5. /\ p2 \in Con /\ p2.fd /\ p2.w /\ ~p2.r /\ p2.ol = ReplyLen
      /\ p2.state = 0 /\ p2.black = black
  BY <1>3 DEF Con
<1>6. np = p3
  BY <1>4
<1> HIDE DEF p2, np
<1>7. /\ p3 \in Con /\ p3.fd /\ p3.w /\ ~p3.r /\ p3.ol = ReplyLen
      /\ p3.state = 0 /\ p3.black = black /\ p3.stutter = s
  BY <1>5 DEF Con
<1> QED BY <1>6, <1>7 DEF np

(* LEMMA: what handlew makes of a connection that has sent some bytes.     *)
LEMMA SentBytes ==
  ASSUME NEW p \in Con, NEW a \in BOOLEAN, NEW l \in 0 .. ReplyLen
  PROVE  LET q == Sent(p, a, l) IN
         /\ q \in Con /\ q.fd = p.fd /\ q.r = p.r /\ (q.w <=> l # 0)
         /\ q.ol = l /\ q.state = p.state /\ q.laststate = p.laststate
         /\ q.black = p.black /\ q.stutter = a
<1>1. PICK b \in BOOLEAN : b = (l # 0)
  OBVIOUS
<1> DEFINE p1 == [p EXCEPT !.stutter = a]
           p2 == [p1 EXCEPT !.ol = l]
           p3 == [p2 EXCEPT !.w = b]
<1>2. [p EXCEPT !.stutter = a, !.ol = l, !.w = b]
        = [[[p EXCEPT !.stutter = a] EXCEPT !.ol = l] EXCEPT !.w = b]
  BY DEF Con
<1>3. Sent(p, a, l) = p3
  BY <1>1, <1>2 DEF Sent
<1>4. /\ p1 \in Con /\ p1.fd = p.fd /\ p1.r = p.r /\ p1.state = p.state
      /\ p1.laststate = p.laststate /\ p1.black = p.black /\ p1.stutter = a
  BY DEF Con
<1> HIDE DEF p1
<1>5. /\ p2 \in Con /\ p2.fd = p.fd /\ p2.r = p.r /\ p2.state = p.state
      /\ p2.laststate = p.laststate /\ p2.black = p.black
      /\ p2.stutter = a /\ p2.ol = l
  BY <1>4 DEF Con
<1> HIDE DEF p2
<1>6. /\ p3 \in Con /\ p3.fd = p.fd /\ p3.r = p.r /\ p3.state = p.state
      /\ p3.laststate = p.laststate /\ p3.black = p.black
      /\ p3.stutter = a /\ p3.ol = l /\ p3.w = b
  BY <1>5 DEF Con
<1> QED BY <1>1, <1>3, <1>6

Inv == TypeOK /\ Dialogue /\ Counters

(* What a step does to one open connection without closing it.             *)
Moves(c, np) ==
  /\ c \in Open /\ con' = [con EXCEPT ![c] = np]
  /\ np \in Con /\ (Asks(np) \/ Answers(np))
  /\ np.fd /\ np.black = con[c].black /\ (np.stutter => con[c].stutter)
  /\ UNCHANGED <<clients, blackcount>>

(* LEMMA: a connection that goes on keeps the invariant, and nobody is     *)
(* stuttered at who was not before.                                        *)
LEMMA MovesKeepInv ==
  ASSUME Inv, NEW c \in Slot, NEW np, Moves(c, np)
  PROVE  Inv' /\ Tarpit' \subseteq Tarpit
<1>1. TypeOK'
  BY DEF Inv, TypeOK, Moves
<1>2. Open' = Open /\ Black' = Black /\ Tarpit' \subseteq Tarpit
  BY DEF Inv, TypeOK, Moves, Open, Black, Tarpit
<1>3. Dialogue'
  BY <1>2 DEF Inv, TypeOK, Moves, Dialogue, Asks, Answers, Open
<1>4. Counters'
  BY <1>2 DEF Inv, Counters, Moves
<1> QED BY <1>1, <1>2, <1>3, <1>4 DEF Inv

(* LEMMA: closecon keeps the invariant.                                    *)
LEMMA CloseKeepsInv ==
  ASSUME Inv, NEW c \in Open, closecon(c)
  PROVE  Inv' /\ Tarpit' \subseteq Tarpit
<1>1. TypeOK'
  <2>1. con' \in [Slot -> Con]
    BY FreeSlot DEF Inv, TypeOK, closecon
  <2>2. clients' \in Int
    BY DEF Inv, TypeOK, closecon
  <2>3. blackcount' \in {blackcount, blackcount - 1}
    BY DEF closecon
  <2>4. blackcount' \in Int
    BY <2>3 DEF Inv, TypeOK
  <2> QED BY <2>1, <2>2, <2>4 DEF TypeOK
<1>2. /\ Open' = Open \ {c} /\ Tarpit' \subseteq Tarpit
      /\ Black' = IF con[c].black THEN Black \ {c} ELSE Black
  BY DEF Inv, TypeOK, closecon, NoCon, Open, Black, Tarpit
<1>3. Dialogue'
  BY <1>2 DEF Inv, TypeOK, Dialogue, closecon, Asks, Answers, Open
<1>4. c \in Black <=> con[c].black
  BY DEF Black
<1>5. Cardinality(Open \ {c}) = Cardinality(Open) - 1
  BY SetsAreFinite, FS_RemoveElement
<1>6. c \in Black => Cardinality(Black \ {c}) = Cardinality(Black) - 1
  BY SetsAreFinite, FS_RemoveElement
<1>7. Counters'
  BY <1>2, <1>4, <1>5, <1>6 DEF Inv, Counters, closecon
<1> QED BY <1>1, <1>2, <1>3, <1>7 DEF Inv

(* LEMMA: when a command is in or a reply is out, what nextstate does      *)
(* keeps the invariant.                                                    *)
LEMMA AdvanceKeepsInv ==
  ASSUME Inv, NEW c \in Open, NEW cp \in Con, cp.fd, ~cp.r, ~cp.w, cp.ol = 0,
         \/ cp.state \in Reading /\ cp.laststate \in Asked(cp.state)
         \/ cp.state \in Writing,
         cp.black = con[c].black, cp.stutter => con[c].stutter, Advance(c, cp)
  PROVE  Inv' /\ Tarpit' \subseteq Tarpit
<1>1. CASE cp.state = 99
  BY <1>1, CloseKeepsInv DEF Advance
<1>2. CASE cp.state # 99
  <2>1. Fine(cp, nextstate(cp))
    BY <1>2, NextstateIsFine DEF Due
  <2>2. c \in Slot
    BY DEF Open
  <2> QED
    BY <1>2, <2>1, <2>2, MovesKeepInv DEF Advance, Fine, Moves
<1> QED BY <1>1, <1>2

(* LEMMA: a new connection keeps the invariant; it is stuttered at only    *)
(* when the blacklisted ones, itself among them, are not too many.         *)
LEMMA AcceptKeepsInv ==
  ASSUME Inv, NEW black \in BOOLEAN, Accept(black)
  PROVE  Inv' /\ (\/ Tarpit' = Tarpit
                  \/ Greylist => Cardinality(Tarpit') <= MaxBlack)
<1>1. PICK c \in Slot \ Open :
        /\ clients' = clients + 1
        /\ blackcount' = IF black THEN blackcount + 1 ELSE blackcount
        /\ con' = [con EXCEPT ![c] =
             [NoCon EXCEPT !.fd = TRUE, !.w = TRUE, !.ol = ReplyLen,
                           !.black = black,
                           !.stutter = StuttersAt(black, blackcount')]]
  BY DEF Accept
<1> DEFINE s == StuttersAt(black, blackcount')
           np == [NoCon EXCEPT !.fd = TRUE, !.w = TRUE, !.ol = ReplyLen,
                               !.black = black, !.stutter = s]
<1>2. s \in BOOLEAN
  BY DEF StuttersAt
<1> HIDE DEF s
<1>3. /\ np \in Con /\ np.fd /\ np.w /\ ~np.r /\ np.ol = ReplyLen
      /\ np.state = 0 /\ np.black = black /\ np.stutter = s
  BY <1>2, NewSlot
<1>4. Answers(np)
  BY <1>3 DEF Answers, Writing
<1>5. con' = [con EXCEPT ![c] = np]
  BY <1>1 DEF s
<1> HIDE DEF np
<1>6. TypeOK'
  BY <1>1, <1>3, <1>5 DEF Inv, TypeOK
<1>7. /\ Open' = Open \cup {c}
      /\ Black' = IF black THEN Black \cup {c} ELSE Black
      /\ ~(black /\ s) => Tarpit' = Tarpit
  <2>1. /\ c \in Slot /\ ~con[c].fd /\ con'[c] = np
        /\ \A d \in Slot \ {c} : con'[d] = con[d]
    BY <1>1, <1>5 DEF Inv, TypeOK, Open
  <2>2. Open' = Open \cup {c}
    BY <1>3, <2>1 DEF Open
  <2>3. CASE black
    <3>1. Black' = Black \cup {c}
      BY <1>3, <2>1, <2>2, <2>3 DEF Black, Open
    <3>2. ~s => Tarpit' = Tarpit
      BY <1>2, <1>3, <2>1, <2>3, <3>1 DEF Tarpit, Black, Open
    <3> QED BY <2>2, <2>3, <3>1, <3>2
  <2>4. CASE ~black
    <3>1. Black' = Black
      BY <1>3, <2>1, <2>2, <2>4 DEF Black, Open
    <3>2. Tarpit' = Tarpit
      BY <2>1, <3>1 DEF Tarpit, Black, Open
    <3> QED BY <2>2, <2>4, <3>1, <3>2
  <2> QED BY <2>3, <2>4
<1>8. Dialogue'
  BY <1>3, <1>4, <1>5, <1>7 DEF Inv, TypeOK, Dialogue, Asks, Answers, Open
<1>9. c \notin Open /\ c \notin Black
  BY <1>1 DEF Black
<1>10. /\ Cardinality(Open \cup {c}) = Cardinality(Open) + 1
       /\ Cardinality(Black \cup {c}) = Cardinality(Black) + 1
  BY <1>9, SetsAreFinite, FS_AddElement
<1>11. Counters'
  BY <1>1, <1>7, <1>10 DEF Inv, Counters
<1>12. Inv'
  BY <1>6, <1>8, <1>11 DEF Inv
<1>13. CASE black /\ s
  <2>1. Greylist => blackcount' <= MaxBlack
    BY <1>6, <1>13 DEF s, StuttersAt, TypeOK
  <2>2. IsFiniteSet(Black') /\ Tarpit' \subseteq Black'
    BY <1>7, <1>13, SetsAreFinite, FS_AddElement DEF Tarpit
  <2>3. /\ Cardinality(Tarpit') <= Cardinality(Black')
        /\ Cardinality(Tarpit') \in Nat /\ Cardinality(Black') \in Nat
    BY <2>2, FS_Subset, FS_CardinalityType
  <2>4. blackcount' = Cardinality(Black')
    BY <1>11 DEF Counters
  <2> QED
    BY <1>12, <2>1, <2>3, <2>4
<1>14. CASE ~(black /\ s)
  BY <1>7, <1>12, <1>14
<1> QED BY <1>13, <1>14

(* LEMMA: every step keeps the invariant and the bound on stuttering.      *)
LEMMA InvInductive ==
  Inv /\ StutterBound /\ [Next]_vars => Inv' /\ StutterBound'
<1> SUFFICES ASSUME Inv, StutterBound, [Next]_vars PROVE Inv' /\ StutterBound'
  OBVIOUS
<1>1. ASSUME Tarpit' \subseteq Tarpit PROVE StutterBound'
  <2>1. Cardinality(Tarpit') <= Cardinality(Tarpit) /\ Cardinality(Tarpit') \in Nat
    BY <1>1, SetsAreFinite, FS_Subset, FS_CardinalityType
  <2> QED
    BY <2>1, SetsAreFinite DEF StutterBound
<1>2. ASSUME NEW black \in BOOLEAN, Accept(black) PROVE Inv' /\ StutterBound'
  BY <1>2, AcceptKeepsInv DEF StutterBound
<1>3. ASSUME NEW c \in Slot, NEW command \in Command, handler(c, command)
      PROVE  Inv' /\ StutterBound'
  <2> DEFINE cp == [con[c] EXCEPT !.r = FALSE, !.ibuf = command]
  <2>1. c \in Open /\ con[c] \in Con /\ Asks(con[c])
    BY <1>3 DEF handler, Open, Inv, TypeOK, Dialogue, Answers
  <2>2. /\ cp \in Con /\ cp.fd /\ ~cp.r /\ cp.w = con[c].w
        /\ cp.ol = con[c].ol /\ cp.state = con[c].state
        /\ cp.laststate = con[c].laststate /\ cp.black = con[c].black
        /\ cp.stutter = con[c].stutter
    BY <1>3, <2>1 DEF Con, handler
  <2>3. Advance(c, cp)
    BY <1>3 DEF handler
  <2> HIDE DEF cp
  <2> QED
    BY <1>1, <2>1, <2>2, <2>3, AdvanceKeepsInv DEF Asks
<1>4. ASSUME NEW c \in Slot, NEW n \in 1 .. ReplyLen, NEW over \in BOOLEAN,
             handlew(c, n, over)
      PROVE  Inv' /\ StutterBound'
  <2> DEFINE stutter == con[c].stutter /\ ~(over /\ Grey(con[c]))
             left == con[c].ol - n
             cp == Sent(con[c], stutter, left)
  <2>1. c \in Open /\ con[c] \in Con /\ Answers(con[c])
    BY <1>4 DEF handlew, Open, Inv, TypeOK, Dialogue, Asks
  <2>2. left \in 0 .. ReplyLen /\ stutter \in BOOLEAN /\ (stutter => con[c].stutter)
    BY <1>4, <2>1 DEF handlew, Con
  <2>3. IF left = 0 THEN Advance(c, cp)
        ELSE con' = [con EXCEPT ![c] = cp] /\ UNCHANGED <<clients, blackcount>>
    BY <1>4 DEF handlew
  <2> HIDE DEF stutter, left
  <2>4. /\ cp \in Con /\ cp.fd /\ cp.r = con[c].r /\ (cp.w <=> left # 0)
        /\ cp.ol = left /\ cp.state = con[c].state
        /\ cp.laststate = con[c].laststate /\ cp.black = con[c].black
        /\ cp.stutter = stutter
    BY <2>1, <2>2, SentBytes DEF Open
  <2> HIDE DEF cp
  <2>5. CASE left = 0
    BY <1>1, <2>1, <2>2, <2>3, <2>4, <2>5, AdvanceKeepsInv DEF Answers
  <2>6. CASE left # 0
    <3>1. left > 0
      BY <2>2, <2>6
    <3>2. Answers(cp)
      BY <2>1, <2>4, <2>6, <3>1 DEF Answers
    <3>3. Moves(c, cp)
      BY <2>1, <2>2, <2>3, <2>4, <2>6, <3>2 DEF Moves
    <3> QED BY <1>1, <3>3, MovesKeepInv
  <2> QED BY <2>5, <2>6
<1>5. ASSUME NEW c \in Slot, Drop(c) PROVE Inv' /\ StutterBound'
  <2>1. c \in Open
    BY <1>5 DEF Drop, Open
  <2> QED BY <1>1, <1>5, <2>1, CloseKeepsInv DEF Drop
<1>6. CASE UNCHANGED vars
  BY <1>6 DEF vars, Inv, TypeOK, Dialogue, Counters, StutterBound, Open, Black,
    Tarpit, Asks, Answers
<1> QED BY <1>2, <1>3, <1>4, <1>5, <1>6 DEF Next

(* LEMMA: an empty table has the invariant.                                *)
LEMMA InitInv == Init => Inv /\ StutterBound
<1> SUFFICES ASSUME Init PROVE Inv /\ StutterBound
  OBVIOUS
<1>2. TypeOK
  BY FreeSlot DEF Init, TypeOK
<1>3. Open = {} /\ Black = {} /\ Tarpit = {}
  BY DEF Init, NoCon, Open, Black, Tarpit
<1>4. Cardinality({}) = 0
  BY FS_EmptySet
<1> QED
  BY <1>2, <1>3, <1>4 DEF Inv, Init, Dialogue, Counters, StutterBound

(* THEOREM: the type invariant.                                            *)
THEOREM TypeCorrect == Spec => []TypeOK
<1>1. Inv => TypeOK
  BY DEF Inv
<1> QED BY <1>1, InitInv, InvInductive, PTL DEF Spec

(* THEOREM: no way through a connection loses count of it.                 *)
THEOREM CountersAreRight == Spec => []Counters
<1>1. Inv => Counters
  BY DEF Inv
<1> QED BY <1>1, InitInv, InvInductive, PTL DEF Spec

(* THEOREM: every open connection either waits for a command in a state it *)
(* can leave, or has something to send; nextstate's default, "illegal      *)
(* state", is never reached.                                               *)
THEOREM DialogueGoesOn == Spec => []Dialogue
<1>1. Inv => Dialogue
  BY DEF Inv
<1> QED BY <1>1, InitInv, InvInductive, PTL DEF Spec

(* THEOREM: in greylist mode no more than maxblack blacklisted connections *)
(* are stuttered at.  It needs Counters: the new connection is compared    *)
(* with blackcount, not with the connections that stutter.                 *)
THEOREM TarpitIsBounded == Spec => []StutterBound
BY InitInv, InvInductive, PTL DEF Spec

-----------------------------------------------------------------------------
(* What greylisted clients get to say.                                     *)

Accepted(cp) == cp.state = 6 \/ (cp.state = 5 /\ cp.laststate = 6)
Proper(cp) ==
  /\ Grey(cp) => cp.state \notin {60, 70}
  /\ Accepted(cp) /\ cp.mail /\ cp.rcpt /\ Grey(cp) => cp.reported
  /\ cp.reported => Grey(cp)
AllProper == \A c \in Open : Proper(con[c])

Same(cp, np) ==
  /\ np.black = cp.black /\ np.mail = cp.mail /\ np.rcpt = cp.rcpt
  /\ np.reported = cp.reported

(* LEMMA: what Reply and Listen do to the fields that matter here.         *)
LEMMA ReplyFields ==
  ASSUME NEW cp \in Con, NEW st
  PROVE  /\ Same(cp, Reply(cp, st)) /\ Reply(cp, st).state = st
         /\ Same(cp, Listen(cp, st)) /\ Listen(cp, st).state = st
         /\ Listen(cp, st).laststate = cp.state
         /\ \A last : LET rp == [Reply(cp, st) EXCEPT !.laststate = last]
                      IN Same(cp, rp) /\ rp.state = st
BY DEF Reply, Listen, Same, Con

(* LEMMA: a connection that was proper stays it where nothing is accepted, *)
(* and no body asked for from a greylisted client.                         *)
LEMMA NotAccepted ==
  ASSUME NEW cp, NEW np, Proper(cp), Same(cp, np), ~Accepted(np),
         Grey(cp) => np.state \notin {60, 70}
  PROVE  Proper(np)
BY DEF Proper, Same, Grey

(* LEMMA: RCPT reports the tuple with the recipient it takes.              *)
LEMMA RcptIsProper ==
  ASSUME NEW cp \in Con, Proper(cp)
  PROVE  Proper(Rcpt(cp))
<1> DEFINE rcpt == setlog(cp.rcpt, cp.ibuf)
           reported == cp.reported \/ (cp.mail /\ rcpt /\ Grey(cp))
           rp == Reply(cp, 6)
           np == [rp EXCEPT !.rcpt = rcpt, !.reported = reported]
<1>1. Rcpt(cp) = np  BY DEF Rcpt
<1>2. Same(cp, rp) /\ rp.state = 6  BY ReplyFields
<1>3. DOMAIN rp = DOMAIN cp  BY DEF Reply
<1>4. DOMAIN rp = {"fd", "state", "laststate", "r", "w", "ol", "ibuf", "black",
                   "stutter", "mail", "rcpt", "reported"}
  BY <1>3 DEF Con
<1> HIDE DEF rcpt, reported, rp
<1>5. /\ np.state = rp.state /\ np.black = rp.black /\ np.mail = rp.mail
      /\ np.rcpt = rcpt /\ np.reported = reported
  BY <1>4
<1>6. Grey(np) <=> Grey(cp)  BY <1>2, <1>5 DEF Grey, Same
<1> HIDE DEF np
<1>7. np.state \notin {60, 70}  BY <1>2, <1>5
<1>8. np.mail = cp.mail  BY <1>2, <1>5 DEF Same
<1>9. np.mail /\ np.rcpt /\ Grey(np) => np.reported
  BY <1>5, <1>6, <1>8, Zenon DEF reported
<1>10. np.reported => Grey(np)
  BY <1>5, <1>6, Zenon DEF reported, Proper
<1>11. QED  BY <1>1, <1>7, <1>9, <1>10 DEF Proper

(* LEMMA: the rest of what a command can lead to.                          *)
LEMMA SpamIsProper ==
  ASSUME NEW cp, Due(cp), cp.state \in {1, 3, 5}, Proper(cp)
  PROVE  Proper(RcptOrSpam(cp)) /\ Proper(MailOrRcpt(cp))
<1>1. cp \in Con /\ cp.laststate \in Asked(cp.state)  BY DEF Due, Writing
<1>2. cp.laststate \in {0, 2, 4, 6} /\ (cp.laststate = 6 => cp.state = 5)
  BY <1>1 DEF Asked
<1>3. Proper(Data(cp))
  <2>1. CASE Grey(cp)
    <3>1. Data(cp) = [Reply(cp, 99) EXCEPT !.laststate = 98]  BY <2>1 DEF Data
    <3>2. Same(cp, Data(cp)) /\ Data(cp).state = 99  BY <1>1, <3>1, ReplyFields
    <3>3. QED  BY <3>2, NotAccepted DEF Accepted
  <2>2. CASE ~Grey(cp)
    <3>1. Data(cp) = [Reply(cp, 60) EXCEPT !.laststate = cp.laststate]  BY <2>2 DEF Data
    <3>2. Same(cp, Data(cp)) /\ Data(cp).state = 60  BY <1>1, <3>1, ReplyFields
    <3>3. QED  BY <2>2, <3>2, NotAccepted DEF Accepted
  <2>3. QED  BY <2>1, <2>2
<1>4. Proper(Unrecognized(cp))
  <2> DEFINE np == Unrecognized(cp)
  <2>1. Same(cp, np) /\ np.state = cp.laststate
    BY <1>1, ReplyFields DEF Unrecognized
  <2> HIDE DEF np
  <2>2. CASE cp.laststate = 6
    <3>1. Accepted(cp)  BY <1>2, <2>2 DEF Accepted
    <3>2. np.state = 6 /\ (Grey(np) <=> Grey(cp))  BY <2>1, <2>2 DEF Same, Grey
    <3>3. Accepted(np) /\ np.mail /\ np.rcpt /\ Grey(np) => np.reported
      BY <2>1, <3>1, <3>2, Zenon DEF Same, Proper
    <3>4. np.reported => Grey(np)  BY <2>1, <3>2, Zenon DEF Same, Proper
    <3>5. np.state \notin {60, 70}  BY <3>2
    <3>6. Proper(np)  BY <3>3, <3>4, <3>5 DEF Proper
    <3>7. QED  BY <3>6 DEF np
  <2>3. CASE cp.laststate # 6
    <3>1. ~Accepted(np) /\ np.state \notin {60, 70}
      BY <1>2, <2>1, <2>3 DEF Accepted
    <3>2. QED  BY <2>1, <3>1, NotAccepted DEF np
  <2>4. QED  BY <2>2, <2>3
<1>5. Proper(RcptOrSpam(cp))
  BY <1>1, <1>3, <1>4, RcptIsProper DEF RcptOrSpam, Spam
<1>6. Proper([Reply(cp, 4) EXCEPT !.mail = setlog(cp.mail, cp.ibuf)])
  <2> DEFINE rp == Reply(cp, 4)
             m == setlog(cp.mail, cp.ibuf)
             np == [rp EXCEPT !.mail = m]
  <2>1. Same(cp, rp) /\ rp.state = 4  BY <1>1, ReplyFields
  <2>2. DOMAIN rp = {"fd", "state", "laststate", "r", "w", "ol", "ibuf", "black",
                     "stutter", "mail", "rcpt", "reported"}
    BY <1>1 DEF Reply, Con
  <2> HIDE DEF rp, m
  <2>3. np.state = rp.state /\ np.black = rp.black /\ np.reported = rp.reported
    BY <2>2
  <2> HIDE DEF np
  <2>4. np.state = 4 /\ np.black = cp.black /\ np.reported = cp.reported
    BY <2>1, <2>3 DEF Same
  <2>5. Proper(np)  BY <2>4 DEF Proper, Accepted, Grey
  <2>6. QED  BY <2>5 DEF np, rp, m
<1>7. QED  BY <1>5, <1>6 DEF MailOrRcpt

(* LEMMA: nextstate keeps a connection proper.                             *)
LEMMA NextstateIsProper ==
  ASSUME NEW cp, Due(cp), Proper(cp)
  PROVE  Proper(nextstate(cp))
<1>1. cp \in Con  BY DEF Due
<1>2. \A st \in {0, 2, 99} : Proper(Reply(cp, st))
  <2> SUFFICES ASSUME NEW st \in {0, 2, 99} PROVE Proper(Reply(cp, st))  OBVIOUS
  <2>1. Same(cp, Reply(cp, st)) /\ Reply(cp, st).state = st  BY <1>1, ReplyFields
  <2>2. QED  BY <2>1, NotAccepted DEF Accepted
<1>3. Proper([Reply(cp, 99) EXCEPT !.laststate = 98])
  <2> DEFINE np == [Reply(cp, 99) EXCEPT !.laststate = 98]
  <2>1. Same(cp, np) /\ np.state = 99  BY <1>1, ReplyFields
  <2> HIDE DEF np
  <2>2. Proper(np)  BY <2>1, NotAccepted DEF Accepted
  <2>3. QED  BY <2>2 DEF np
<1>4. \A st : Same(cp, Listen(cp, st)) /\ Listen(cp, st).state = st
              /\ Listen(cp, st).laststate = cp.state
  BY <1>1, ReplyFields
<1>5. CASE cp.ibuf = "QUIT" \/ (cp.ibuf = "RSET" /\ cp.state \in 3 .. 49)
  BY <1>2, <1>5 DEF nextstate
<1>6. CASE ~(cp.ibuf = "QUIT" \/ (cp.ibuf = "RSET" /\ cp.state \in 3 .. 49))
  <2>1. CASE cp.state \in {0, 2, 4}
    <3>1. PICK st \in {1, 3, 5} : nextstate(cp) = Listen(cp, st)
      <4>1. CASE cp.state = 0  BY <1>6, <4>1 DEF nextstate
      <4>2. CASE cp.state = 2  BY <1>6, <4>2 DEF nextstate
      <4>3. CASE cp.state = 4  BY <1>6, <4>3 DEF nextstate
      <4>4. QED  BY <2>1, <4>1, <4>2, <4>3
    <3>2. ~Accepted(Listen(cp, st)) /\ Listen(cp, st).state \notin {60, 70}
      BY <1>4, <2>1 DEF Accepted
    <3>3. QED  BY <1>4, <3>1, <3>2, NotAccepted
  <2>2. CASE cp.state = 6
    <3> DEFINE np == Listen(cp, 5)
    <3>1. nextstate(cp) = np  BY <1>6, <2>2 DEF nextstate
    <3>2. Same(cp, np) /\ np.state = 5  BY <1>4
    <3>3. Accepted(cp)  BY <2>2 DEF Accepted
    <3> HIDE DEF np
    <3>4. Grey(np) <=> Grey(cp)  BY <3>2 DEF Same, Grey
    <3>5. np.mail /\ np.rcpt /\ Grey(np) => np.reported
      BY <3>2, <3>3, <3>4, Zenon DEF Same, Proper
    <3>6. np.reported => Grey(np)  BY <3>2, <3>4, Zenon DEF Same, Proper
    <3>7. np.state \notin {60, 70}  BY <3>2
    <3>8. QED  BY <3>1, <3>5, <3>6, <3>7 DEF Proper
  <2>3. CASE cp.state = 60
    <3>1. nextstate(cp) = Listen(cp, 70)  BY <1>6, <2>3 DEF nextstate
    <3>2. ~Grey(cp)  BY <2>3 DEF Proper
    <3>3. ~Accepted(Listen(cp, 70))  BY <1>4 DEF Accepted
    <3>4. QED  BY <1>4, <3>1, <3>2, <3>3, NotAccepted
  <2>4. CASE cp.state \in {1, 3, 5}
    <3>1. Proper(RcptOrSpam(cp)) /\ Proper(MailOrRcpt(cp))  BY <2>4, SpamIsProper
    <3>2. nextstate(cp) \in {Reply(cp, 2), Reply(cp, 0), RcptOrSpam(cp), MailOrRcpt(cp)}
      BY <1>6, <2>4 DEF nextstate
    <3>3. QED  BY <1>2, <3>1, <3>2
  <2>5. CASE cp.state = 70
    <3>1. CASE cp.ibuf = "end"
      <4>1. nextstate(cp) = [Reply(cp, 99) EXCEPT !.laststate = 98]
        BY <1>6, <2>5, <3>1 DEF nextstate
      <4>2. QED  BY <1>3, <4>1
    <3>2. CASE cp.ibuf # "end"
      <4> DEFINE np == [cp EXCEPT !.r = TRUE, !.ibuf = "none"]
      <4>1. nextstate(cp) = np  BY <1>6, <2>5, <3>2 DEF nextstate
      <4>2. Same(cp, np) /\ np.state = 70  BY <1>1, <2>5 DEF Same, Con
      <4>3. ~Grey(cp)  BY <2>5 DEF Proper
      <4> HIDE DEF np
      <4>4. QED  BY <4>1, <4>2, <4>3, NotAccepted DEF Accepted
    <3>3. QED  BY <3>1, <3>2
  <2>6. QED  BY <2>1, <2>2, <2>3, <2>4, <2>5 DEF Due, Reading, Writing
<1>7. QED  BY <1>5, <1>6

(* LEMMA: a slot that changes, and is proper if it is still in use.        *)
LEMMA ProperSlot ==
  ASSUME Inv, AllProper, NEW c \in Slot, NEW np, con' = [con EXCEPT ![c] = np],
         np.fd => Proper(np)
  PROVE  AllProper'
<1>1. \A d \in Slot : con'[d] = IF d = c THEN np ELSE con[d]
  BY DEF Inv, TypeOK
<1>2. QED  BY <1>1 DEF AllProper, Open, Proper, Accepted, Grey

(* LEMMA: nextstate, or closecon in state 99, keeps all connections proper. *)
LEMMA ProperAdvance ==
  ASSUME Inv, AllProper, NEW c \in Slot, NEW cp \in Con, cp.fd, ~cp.r, ~cp.w, cp.ol = 0,
         \/ cp.state \in Reading /\ cp.laststate \in Asked(cp.state)
         \/ cp.state \in Writing,
         Proper(cp), Advance(c, cp)
  PROVE  AllProper'
<1>1. CASE cp.state = 99
  <2>1. con' = [con EXCEPT ![c] = NoCon] /\ ~NoCon.fd
    BY <1>1 DEF Advance, closecon, NoCon
  <2>2. QED  BY <2>1, ProperSlot
<1>2. CASE cp.state # 99
  <2>1. Proper(nextstate(cp))  BY <1>2, NextstateIsProper DEF Due
  <2>2. con' = [con EXCEPT ![c] = nextstate(cp)]  BY <1>2 DEF Advance
  <2>3. QED  BY <2>1, <2>2, ProperSlot
<1>3. QED  BY <1>1, <1>2

(* LEMMA: nothing that matters here differs.                               *)
LEMMA SameIsProper ==
  ASSUME NEW cp, NEW np, Proper(cp), Same(cp, np), np.state = cp.state,
         np.laststate = cp.laststate
  PROVE  Proper(np)
<1>1. (Grey(np) <=> Grey(cp)) /\ (Accepted(np) <=> Accepted(cp))
  BY DEF Same, Grey, Accepted
<1>2. np.state \in {60, 70} <=> cp.state \in {60, 70}  OBVIOUS
<1>3. QED  BY <1>1, <1>2, Zenon DEF Proper, Same

(* LEMMA: every step keeps all connections proper.                         *)
LEMMA ProperStep == Inv /\ AllProper /\ [Next]_vars => AllProper'
<1> SUFFICES ASSUME Inv, AllProper, [Next]_vars PROVE AllProper'  OBVIOUS
<1>1. ASSUME NEW black \in BOOLEAN, Accept(black) PROVE AllProper'
  <2> DEFINE s == StuttersAt(black, blackcount')
             np == [NoCon EXCEPT !.fd = TRUE, !.w = TRUE, !.ol = ReplyLen,
                                 !.black = black, !.stutter = s]
  <2>1. PICK c \in Slot \ Open : con' = [con EXCEPT ![c] = np]
    BY <1>1 DEF Accept
  <2>2. DOMAIN NoCon = {"fd", "state", "laststate", "r", "w", "ol", "ibuf", "black",
                        "stutter", "mail", "rcpt", "reported"}
        /\ NoCon.state = 0 /\ NoCon.reported = FALSE
    BY DEF NoCon
  <2> HIDE DEF s
  <2>3. np.state = 0 /\ np.reported = FALSE
    BY <2>2
  <2> HIDE DEF np
  <2>4. Proper(np)  BY <2>3 DEF Proper, Accepted
  <2>5. QED  BY <2>1, <2>4, ProperSlot
<1>2. ASSUME NEW c \in Slot, NEW command \in Command, handler(c, command) PROVE AllProper'
  <2> DEFINE cp == [con[c] EXCEPT !.r = FALSE, !.ibuf = command]
  <2>1. c \in Open /\ con[c] \in Con /\ Asks(con[c]) /\ Proper(con[c])
    BY <1>2 DEF handler, Open, Inv, TypeOK, Dialogue, Answers, AllProper
  <2>2. /\ cp \in Con /\ cp.fd /\ ~cp.r /\ cp.w = con[c].w
        /\ cp.ol = con[c].ol /\ cp.state = con[c].state
        /\ cp.laststate = con[c].laststate
    BY <1>2, <2>1 DEF Con, handler
  <2>3. Same(con[c], cp)  BY <2>1 DEF Con, Same
  <2>4. Advance(c, cp)  BY <1>2 DEF handler
  <2> HIDE DEF cp
  <2>5. Proper(cp)  BY <2>1, <2>2, <2>3, SameIsProper
  <2>6. QED  BY <2>1, <2>2, <2>4, <2>5, ProperAdvance DEF Asks
<1>3. ASSUME NEW c \in Slot, NEW n \in 1 .. ReplyLen, NEW over \in BOOLEAN,
             handlew(c, n, over)
      PROVE  AllProper'
  <2> DEFINE stutter == con[c].stutter /\ ~(over /\ Grey(con[c]))
             left == con[c].ol - n
             cp == Sent(con[c], stutter, left)
  <2>1. c \in Open /\ con[c] \in Con /\ Answers(con[c]) /\ Proper(con[c])
    BY <1>3 DEF handlew, Open, Inv, TypeOK, Dialogue, Asks, AllProper
  <2>2. left \in 0 .. ReplyLen /\ stutter \in BOOLEAN
    BY <1>3, <2>1 DEF handlew, Con
  <2>3. IF left = 0 THEN Advance(c, cp) ELSE con' = [con EXCEPT ![c] = cp]
    BY <1>3 DEF handlew
  <2> HIDE DEF stutter, left
  <2>4. /\ cp \in Con /\ cp.fd /\ cp.r = con[c].r /\ (cp.w <=> left # 0)
        /\ cp.ol = left /\ cp.state = con[c].state /\ cp.laststate = con[c].laststate
    BY <2>1, <2>2, SentBytes DEF Open
  <2>5. Same(con[c], cp)  BY <2>1 DEF Sent, Con, Same
  <2> HIDE DEF cp
  <2>6. Proper(cp)  BY <2>1, <2>4, <2>5, SameIsProper
  <2>7. CASE left = 0
    BY <2>1, <2>3, <2>4, <2>6, <2>7, ProperAdvance DEF Answers
  <2>8. CASE left # 0  BY <2>3, <2>6, <2>8, ProperSlot
  <2>9. QED  BY <2>7, <2>8
<1>4. ASSUME NEW c \in Slot, Drop(c) PROVE AllProper'
  <2>1. con' = [con EXCEPT ![c] = NoCon] /\ ~NoCon.fd
    BY <1>4 DEF Drop, closecon, NoCon
  <2>2. QED  BY <2>1, ProperSlot
<1>5. CASE UNCHANGED vars
  BY <1>5 DEF vars, AllProper, Open, Proper, Accepted, Grey
<1>6. QED  BY <1>1, <1>2, <1>3, <1>4, <1>5 DEF Next

(* LEMMA: the invariant of the specification.                              *)
LEMMA Propriety == Spec => []AllProper
<1>1. Init => AllProper  BY DEF Init, NoCon, AllProper, Open
<1>2. QED  BY <1>1, InitInv, InvInductive, ProperStep, PTL DEF Spec

(* THEOREM: no greylisted client gets as far as the body of a message      *)
(* (spamd.c, nextstate: the label spam).                                   *)
THEOREM GreyIsTurnedAway == Spec => []GreyNeverSends
<1>1. AllProper => GreyNeverSends  BY DEF AllProper, Proper, GreyNeverSends
<1>2. QED  BY <1>1, Propriety, PTL

(* THEOREM: every recipient that is accepted from a greylisted client is   *)
(* in the tuple that was reported, and only greylisted clients are         *)
(* reported (spamd.c, nextstate: the label rcpt).                          *)
THEOREM RecipientsAreReported == Spec => []AcceptedIsReported
<1>1. AllProper => AcceptedIsReported
  BY DEF AllProper, Proper, Accepted, AcceptedIsReported
<1>2. QED  BY <1>1, Propriety, PTL
=============================================================================
