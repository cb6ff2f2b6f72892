--------------------------- MODULE GreyReaderProof ---------------------------
(***************************************************************************)
(* Proofs about GreyReader, for any number of messages and any capacity of *)
(* the pipe: its type invariant, EachMessageOnce and SyncMarksItsTuple,    *)
(* and that it implements TupleFeed.                                       *)
(***************************************************************************)
EXTENDS GreyReader, SequenceTheorems, FiniteSetTheorems, TLAPS

-----------------------------------------------------------------------------
(* What a line is, and which line comes after it.                          *)

LineSet == [tag : {"SYNC", "CO", "HE", "IP", "FR", "TO", "TW"},
            of : 1 .. MaxMessages, text : Target \cup {"text"}]
CallSet == [tw : Nat]
             \cup [helo : Nat, ip : Nat, from : Nat, to : Nat, sync : BOOLEAN, cip : Target]

First(x) == x.tag \in {"CO", "SYNC", "TW"}
Final(x) == x.tag \in {"TO", "TW"}
Tags(kind) ==
  CASE kind = "tuple" -> {"CO", "HE", "IP", "FR", "TO"}
    [] kind = "sync" -> {"SYNC", "HE", "IP", "FR", "TO"}
    [] kind = "tw" -> {"TW"}
Successor(tag) ==
  CASE tag \in {"CO", "SYNC"} -> "HE"
    [] tag = "HE" -> "IP"
    [] tag = "IP" -> "FR"
    [] tag = "FR" -> "TO"
Text(m, tag) ==
  CASE tag = "CO" -> m.co
    [] tag = "HE" -> (IF m.helo THEN "text" ELSE "")
    [] OTHER -> "text"

LineOf(x) ==
  /\ x.of \in 1 .. Len(written)
  /\ x.tag \in Tags(written[x.of].kind)
  /\ x.text = Text(written[x.of], x.tag)
Follows(x, y) ==
  IF Final(x) THEN y.of = x.of + 1 /\ First(y)
  ELSE y.of = x.of /\ y.tag = Successor(x.tag)

-----------------------------------------------------------------------------
(* The invariant.  The pipe is the rest of one message and then whole      *)
(* messages up to the last one written; Reading is the message whose lines *)
(* greyreader reads, and those before it have been read.                   *)

Reading == IF pipe = <<>> THEN Len(written) + 1 ELSE Head(pipe).of
Between == pipe = <<>> \/ First(Head(pipe))

PipeInv ==
  /\ \A k \in 1 .. Len(pipe) : LineOf(pipe[k])
  /\ \A k \in 1 .. Len(pipe) : k > 1 => Follows(pipe[k - 1], pipe[k])
  /\ \A k, l \in 1 .. Len(pipe) : k <= l => pipe[k].of <= pipe[l].of
  /\ \A i \in Reading .. Len(written) : \E k \in 1 .. Len(pipe) : pipe[k].of = i
  /\ pipe # <<>> => /\ Final(pipe[Len(pipe)])
                    /\ pipe[Len(pipe)].of = Len(written)

(* Between two messages greyreader is in state 0 and sync is set; within   *)
(* one, state and buffers are those of the lines it has read of it.  The   *)
(* rest of a tuple without HELO it reads in state 0.                       *)
ReaderInv ==
  /\ Between => state = 0 /\ sync
  /\ ~Between =>
       /\ sync = (written[Reading].kind = "tuple")
       /\ state = IF ~written[Reading].helo THEN 0
                  ELSE CASE Line.tag = "HE" -> 0
                         [] Line.tag = "IP" -> 1
                         [] Line.tag = "FR" -> 2
                         [] Line.tag = "TO" -> 3
       /\ state >= 1 => helo = Reading
       /\ state >= 2 => ip = Reading
       /\ state >= 3 => from = Reading

(* cip is the last target there was up to message n.                       *)
Remembers(n) ==
  \/ cip # "low" /\ \A i \in 1 .. n : written[i].co = ""
  \/ /\ cip # ""
     /\ \E k \in 1 .. n : /\ written[k].co = cip
                          /\ \A i \in 1 .. n : i > k => written[i].co = ""
CipInv == Remembers(IF Between THEN Reading - 1 ELSE Reading)

CallsInv ==
  /\ Len(updates) <= Reading - 1
  /\ {Number(updates[k]) : k \in 1 .. Len(updates)} = {i \in 1 .. Reading - 1 : written[i].helo}
  /\ \A k, l \in 1 .. Len(updates) : k < l => Number(updates[k]) < Number(updates[l])
  /\ \A k \in 1 .. Len(updates) : IsTuple(updates[k]) =>
       LET u == updates[k] IN
       /\ u.helo = u.to /\ u.ip = u.to /\ u.from = u.to
       /\ u.sync <=> written[u.to].kind = "tuple"

Types ==
  /\ written \in Seq(Message) /\ Len(written) <= MaxMessages
  /\ pipe \in Seq(LineSet) /\ Len(pipe) <= MaxLines
  /\ state \in 0 .. 3 /\ sync \in BOOLEAN /\ cip \in Target
  /\ {helo, ip, from} \subseteq 0 .. MaxMessages
  /\ updates \in Seq(CallSet)

Inv == Types /\ PipeInv /\ ReaderInv /\ CipInv /\ CallsInv

-----------------------------------------------------------------------------
(* The lines of a message.                                                 *)

(* LEMMA: Lines gives the lines of message i, each after its predecessor,  *)
(* from the first one to the final one.                                    *)
LEMMA LinesOfMessage ==
  ASSUME NEW m \in Message, NEW i \in 1 .. MaxMessages
  PROVE  LET ls == Lines(m, i) IN
         /\ ls \in Seq(LineSet) /\ Len(ls) >= 1
         /\ \A k \in 1 .. Len(ls) :
              ls[k].of = i /\ ls[k].tag \in Tags(m.kind) /\ ls[k].text = Text(m, ls[k].tag)
         /\ \A k \in 1 .. Len(ls) : k > 1 => Follows(ls[k - 1], ls[k])
         /\ First(ls[1]) /\ Final(ls[Len(ls)])
<1> DEFINE L(tag, text) == [tag |-> tag, of |-> i, text |-> text]
           he == IF m.helo THEN "text" ELSE ""
<1>1. \A tag \in {"SYNC", "CO", "HE", "IP", "FR", "TO", "TW"}, text \in Target \cup {"text"} :
        L(tag, text) \in LineSet
  BY DEF LineSet
<1>2. he \in Target \cup {"text"} /\ m.co \in Target  BY DEF Message, Target
<1>f. ASSUME NEW tag \in {"CO", "SYNC"}, NEW text \in Target \cup {"text"},
             Lines(m, i) = <<L(tag, text)>>
                \o <<L("HE", he), L("IP", "text"), L("FR", "text"), L("TO", "text")>>,
             Tags(m.kind) = {tag, "HE", "IP", "FR", "TO"}, text = Text(m, tag)
      PROVE  LET ls == Lines(m, i) IN
             /\ ls \in Seq(LineSet) /\ Len(ls) >= 1
             /\ \A k \in 1 .. Len(ls) :
                  ls[k].of = i /\ ls[k].tag \in Tags(m.kind) /\ ls[k].text = Text(m, ls[k].tag)
             /\ \A k \in 1 .. Len(ls) : k > 1 => Follows(ls[k - 1], ls[k])
             /\ First(ls[1]) /\ Final(ls[Len(ls)])
  <2> DEFINE ls == Lines(m, i)
  <2>1. /\ ls \in Seq(LineSet) /\ Len(ls) = 5
        /\ ls[1] = L(tag, text) /\ ls[2] = L("HE", he)
        /\ ls[3] = L("IP", "text") /\ ls[4] = L("FR", "text")
        /\ ls[5] = L("TO", "text")
    <3>1. /\ L(tag, text) \in LineSet /\ L("HE", he) \in LineSet /\ L("IP", "text") \in LineSet
          /\ L("FR", "text") \in LineSet /\ L("TO", "text") \in LineSet
      BY <1>1, <1>2
    <3> DEFINE one == <<L(tag, text)>>
               four == <<L("HE", he), L("IP", "text"), L("FR", "text"), L("TO", "text")>>
    <3>2. ls = one \o four  BY <1>f
    <3> HIDE DEF L, he, ls
    <3>3. one \in Seq(LineSet) /\ Len(one) = 1 /\ one[1] = L(tag, text)  BY <3>1
    <3>4. /\ four \in Seq(LineSet) /\ Len(four) = 4
          /\ four[1] = L("HE", he) /\ four[2] = L("IP", "text") /\ four[3] = L("FR", "text")
          /\ four[4] = L("TO", "text")
      BY <3>1
    <3> HIDE DEF one, four
    <3>5. /\ ls \in Seq(LineSet) /\ Len(ls) = Len(one) + Len(four)
          /\ \A k \in 1 .. Len(one) + Len(four) :
               ls[k] = IF k <= Len(one) THEN one[k] ELSE four[k - Len(one)]
      BY <3>2, <3>3, <3>4, ConcatProperties, Zenon
    <3>6. QED  BY <3>3, <3>4, <3>5
  <2> HIDE DEF ls, he
  <2>2. /\ ls[1].of = i /\ ls[1].tag = tag /\ ls[1].text = text
        /\ ls[2].of = i /\ ls[2].tag = "HE" /\ ls[2].text = he
        /\ ls[3].of = i /\ ls[3].tag = "IP" /\ ls[3].text = "text"
        /\ ls[4].of = i /\ ls[4].tag = "FR" /\ ls[4].text = "text"
        /\ ls[5].of = i /\ ls[5].tag = "TO" /\ ls[5].text = "text"
    BY <2>1
  <2>3. /\ Text(m, "HE") = he /\ Text(m, "IP") = "text" /\ Text(m, "FR") = "text"
        /\ Text(m, "TO") = "text"
    BY DEF Text, he
  <2>4. /\ Follows(ls[1], ls[2]) /\ Follows(ls[2], ls[3]) /\ Follows(ls[3], ls[4])
        /\ Follows(ls[4], ls[5])
    BY <2>2 DEF Follows, Final, Successor
  <2>5. \A k \in 1 .. 5 : k > 1 => Follows(ls[k - 1], ls[k])
    <3> SUFFICES ASSUME NEW k \in 2 .. 5 PROVE Follows(ls[k - 1], ls[k])  OBVIOUS
    <3>1. k = 2 \/ k = 3 \/ k = 4 \/ k = 5  OBVIOUS
    <3>2. QED  BY <3>1, <2>4
  <2>6. \A k \in 1 .. 5 :
          ls[k].of = i /\ ls[k].tag \in Tags(m.kind) /\ ls[k].text = Text(m, ls[k].tag)
    <3> SUFFICES ASSUME NEW k \in 1 .. 5
                 PROVE  ls[k].of = i /\ ls[k].tag \in Tags(m.kind) /\ ls[k].text = Text(m, ls[k].tag)
      OBVIOUS
    <3>1. k = 1 \/ k = 2 \/ k = 3 \/ k = 4 \/ k = 5  OBVIOUS
    <3>2. QED  BY <3>1, <2>2, <2>3, <1>f
  <2>7. First(ls[1]) /\ Final(ls[5])  BY <2>2 DEF First, Final
  <2>8. Len(ls) >= 1  BY <2>1
  <2>9. QED  BY <2>1, <2>5, <2>6, <2>7, <2>8 DEF ls
<1>3. CASE m.kind = "tuple"
  <2>1. Lines(m, i) = <<L("CO", m.co)>>
                        \o <<L("HE", he), L("IP", "text"), L("FR", "text"), L("TO", "text")>>
    BY <1>3, Zenon DEF Lines
  <2>2. Tags(m.kind) = {"CO", "HE", "IP", "FR", "TO"} /\ m.co = Text(m, "CO")
    BY <1>3 DEF Tags, Text
  <2>3. QED  BY <1>2, <1>f, <2>1, <2>2
<1>4. CASE m.kind = "sync"
  <2>1. Lines(m, i) = <<L("SYNC", "text")>>
                        \o <<L("HE", he), L("IP", "text"), L("FR", "text"), L("TO", "text")>>
    BY <1>4, Zenon DEF Lines
  <2>2. Tags(m.kind) = {"SYNC", "HE", "IP", "FR", "TO"} /\ "text" = Text(m, "SYNC")
    BY <1>4 DEF Tags, Text
  <2>3. QED  BY <1>2, <1>f, <2>1, <2>2
<1>5. CASE m.kind = "tw"
  <2>1. Lines(m, i) = <<L("TW", "text")>>
    BY <1>5 DEF Lines
  <2>2. L("TW", "text") \in LineSet  BY <1>1
  <2>3. Tags(m.kind) = {"TW"} /\ Text(m, "TW") = "text"  BY <1>5 DEF Tags, Text
  <2>4. First(L("TW", "text")) /\ Final(L("TW", "text"))  BY DEF First, Final
  <2>5. /\ L("TW", "text").of = i /\ L("TW", "text").tag = "TW"
        /\ L("TW", "text").text = "text"
    OBVIOUS
  <2> DEFINE ls == Lines(m, i)
  <2> HIDE DEF L
  <2>6. ls \in Seq(LineSet) /\ Len(ls) = 1 /\ ls[1] = L("TW", "text")  BY <2>1, <2>2
  <2> HIDE DEF ls
  <2>7. QED  BY <2>3, <2>4, <2>5, <2>6 DEF ls
<1>6. QED  BY <1>3, <1>4, <1>5 DEF Message

(* LEMMA: in the present message and behind it nothing has been read whole,*)
(* before it everything.                                                   *)
LEMMA ReadIsBefore ==
  ASSUME Types, PipeInv
  PROVE  /\ Reading \in 1 .. Len(written) + 1
         /\ \A i \in 1 .. Len(written) : Read(i) <=> i < Reading
<1>1. CASE pipe = <<>>
  BY <1>1 DEF Types, Reading, Read
<1>2. CASE pipe # <<>>
  <2>1. Len(pipe) \in Nat \ {0} /\ Head(pipe) = pipe[1]  BY <1>2 DEF Types
  <2>2. Reading = pipe[1].of  BY <1>2, <2>1 DEF Reading
  <2>3. Reading \in 1 .. Len(written)  BY <2>1, <2>2 DEF PipeInv, LineOf
  <2>4. \A k \in 1 .. Len(pipe) : pipe[1].of <= pipe[k].of  BY <2>1 DEF PipeInv
  <2>5. \A k \in 1 .. Len(pipe) : pipe[k].of \in Nat  BY DEF PipeInv, LineOf
  <2>6. ASSUME NEW i \in 1 .. Len(written) PROVE Read(i) <=> i < Reading
    <3>1. CASE i < Reading  BY <3>1, <2>2, <2>3, <2>4, <2>5 DEF Read
    <3>2. CASE ~(i < Reading)
      <4>1. i \in Reading .. Len(written)  BY <3>2, <2>3
      <4>2. PICK k \in 1 .. Len(pipe) : pipe[k].of = i  BY <4>1 DEF PipeInv
      <4>3. QED  BY <4>2, <3>2 DEF Read
    <3>3. QED  BY <3>1, <3>2
  <2>7. QED  BY <2>3, <2>6 DEF Types
<1>3. QED  BY <1>1, <1>2

-----------------------------------------------------------------------------
(* What writing and reading do to the pipe.                                *)

(* LEMMA: a message is written behind what is in the pipe.                 *)
LEMMA WriteKeepsPipe ==
  ASSUME Types, PipeInv, NEW m \in Message, Write(m)
  PROVE  /\ written' \in Seq(Message) /\ Len(written') = Len(written) + 1
         /\ Len(written') <= MaxMessages
         /\ \A i \in 1 .. Len(written) : written'[i] = written[i]
         /\ pipe' \in Seq(LineSet) /\ Len(pipe') <= MaxLines /\ pipe' # <<>>
         /\ PipeInv' /\ Reading' = Reading
         /\ IF pipe = <<>> THEN First(Head(pipe')) ELSE Head(pipe') = Head(pipe)
<1> DEFINE n == Len(written) + 1
           ls == Lines(m, n)
           p == Len(pipe)
           q == Len(ls)
<1>1. n \in 1 .. MaxMessages /\ p \in Nat  BY BoundsAssumption DEF Types, Write
<1>2. /\ ls \in Seq(LineSet) /\ q >= 1 /\ q \in Nat
      /\ \A k \in 1 .. q :
           ls[k].of = n /\ ls[k].tag \in Tags(m.kind) /\ ls[k].text = Text(m, ls[k].tag)
      /\ \A k \in 1 .. q : k > 1 => Follows(ls[k - 1], ls[k])
      /\ First(ls[1]) /\ Final(ls[q])
  BY <1>1, LinesOfMessage
<1>3. /\ written' = Append(written, m) /\ pipe' = pipe \o ls
      /\ n <= MaxMessages /\ p + q <= MaxLines
  BY <1>1 DEF Write
<1> HIDE DEF ls
<1>4. /\ written' \in Seq(Message) /\ Len(written') = n
      /\ \A i \in 1 .. Len(written) : written'[i] = written[i]
      /\ written'[n] = m
  BY <1>3, AppendProperties DEF Types
<1>5. /\ pipe' \in Seq(LineSet) /\ Len(pipe') = p + q
      /\ \A k \in 1 .. p + q : pipe'[k] = IF k <= p THEN pipe[k] ELSE ls[k - p]
  BY <1>1, <1>2, <1>3, ConcatProperties DEF Types
<1>6. pipe' # <<>> /\ Head(pipe') = pipe'[1]  BY <1>1, <1>2, <1>5
<1>7. pipe # <<>> => p >= 1 /\ Head(pipe') = Head(pipe)
  <2>1. pipe # <<>> => p >= 1 /\ Head(pipe) = pipe[1]  BY DEF Types
  <2>2. QED  BY <1>1, <1>2, <1>5, <1>6, <2>1
<1>8. pipe = <<>> => p = 0 /\ Head(pipe') = ls[1]  BY <1>2, <1>5, <1>6
<1>9. Reading' = Reading  BY <1>2, <1>6, <1>7, <1>8 DEF Reading
<1>10. \A k \in 1 .. p : LineOf(pipe[k]) /\ pipe[k].of < n
  <2>1. \A k \in 1 .. p : LineOf(pipe[k])  BY DEF PipeInv
  <2>2. \A k \in 1 .. p : pipe[k].of \in 1 .. Len(written)  BY <2>1 DEF LineOf
  <2>3. QED  BY <1>1, <2>1, <2>2
<1>11. ASSUME NEW k \in 1 .. p + q PROVE LineOf(pipe[k])'
  <2>1. CASE k <= p
    <3>1. k \in 1 .. p /\ pipe'[k] = pipe[k]  BY <1>1, <1>5, <2>1
    <3>2. LineOf(pipe[k]) /\ pipe[k].of \in 1 .. Len(written)  BY <1>10, <3>1 DEF LineOf
    <3>3. QED  BY <1>1, <1>4, <3>1, <3>2 DEF LineOf
  <2>2. CASE ~(k <= p)
    <3>1. k - p \in 1 .. q /\ pipe'[k] = ls[k - p]  BY <1>1, <1>2, <1>5, <2>2
    <3>2. QED  BY <1>1, <1>2, <1>4, <3>1 DEF LineOf
  <2>3. QED  BY <2>1, <2>2
<1>12. ASSUME NEW k \in 1 .. p + q, k > 1 PROVE Follows(pipe'[k - 1], pipe'[k])
  <2>1. CASE k <= p
    <3>1. k \in 1 .. p /\ k - 1 \in 1 .. p + q  BY <1>1, <1>2, <1>12, <2>1
    <3>2. pipe'[k - 1] = pipe[k - 1] /\ pipe'[k] = pipe[k]  BY <1>1, <1>5, <2>1, <3>1
    <3>3. QED  BY <1>12, <3>1, <3>2 DEF PipeInv
  <2>2. CASE k = p + 1
    <3>1. pipe'[k] = ls[1] /\ k - 1 = p /\ p >= 1  BY <1>1, <1>2, <1>5, <1>12, <2>2
    <3>2. pipe'[k - 1] = pipe[p]  BY <1>1, <1>2, <1>5, <3>1
    <3>3. Final(pipe[p]) /\ pipe[p].of = Len(written)  BY <3>1 DEF PipeInv
    <3>4. ls[1].of = n  BY <1>2
    <3>5. QED  BY <1>2, <3>1, <3>2, <3>3, <3>4 DEF Follows
  <2>3. CASE k > p + 1
    <3>1. k - p \in 1 .. q /\ k - p > 1 /\ k - 1 \in 1 .. p + q  BY <1>1, <1>2, <1>12, <2>3
    <3>2. pipe'[k] = ls[k - p] /\ pipe'[k - 1] = ls[(k - p) - 1]
      <4>1. (k - 1) - p = (k - p) - 1  BY <1>1, <1>2
      <4>2. QED  BY <1>1, <1>2, <1>5, <2>3, <3>1, <4>1
    <3>3. QED  BY <1>2, <3>1, <3>2
  <2>4. QED  BY <1>1, <1>2, <2>1, <2>2, <2>3
<1>13. ASSUME NEW k \in 1 .. p + q, NEW l \in 1 .. p + q, k <= l
       PROVE  pipe'[k].of <= pipe'[l].of
  <2>1. CASE l <= p
    <3>1. k \in 1 .. p /\ l \in 1 .. p  BY <1>1, <1>2, <1>13, <2>1
    <3>2. QED  BY <1>5, <1>13, <3>1 DEF PipeInv
  <2>2. CASE ~(l <= p)
    <3>1. pipe'[l].of = n
      <4>1. l - p \in 1 .. q /\ pipe'[l] = ls[l - p]  BY <1>1, <1>2, <1>5, <2>2
      <4>2. QED  BY <1>2, <4>1
    <3>2. pipe'[k].of \in Nat /\ pipe'[k].of <= n
      <4>1. CASE k <= p
        <5>1. k \in 1 .. p /\ pipe'[k] = pipe[k]  BY <1>1, <1>2, <1>5, <4>1
        <5>2. pipe[k].of < n /\ pipe[k].of \in 1 .. Len(written)  BY <1>10, <5>1 DEF LineOf
        <5>3. QED  BY <1>1, <5>1, <5>2
      <4>2. CASE ~(k <= p)
        <5>1. k - p \in 1 .. q /\ pipe'[k] = ls[k - p]  BY <1>1, <1>2, <1>5, <4>2
        <5>2. QED  BY <1>1, <1>2, <5>1
      <4>3. QED  BY <4>1, <4>2
    <3>3. QED  BY <3>1, <3>2
  <2>3. QED  BY <2>1, <2>2
<1>14. ASSUME NEW i \in Reading .. n PROVE \E k \in 1 .. p + q : pipe'[k].of = i
  <2>1. CASE i = n
    <3>1. p + 1 \in 1 .. p + q /\ ~(p + 1 <= p) /\ (p + 1) - p = 1  BY <1>1, <1>2
    <3>1a. pipe'[p + 1] = ls[1]  BY <1>5, <3>1
    <3>2. ls[1].of = n  BY <1>2
    <3>3. QED  BY <2>1, <3>1, <3>1a, <3>2
  <2>2. CASE i # n
    <3>1. Reading \in 1 .. n  BY <1>1, ReadIsBefore
    <3>2. i \in Reading .. Len(written)  BY <1>1, <2>2, <3>1
    <3>3. PICK k \in 1 .. p : pipe[k].of = i  BY <3>2 DEF PipeInv
    <3>4. k \in 1 .. p + q /\ pipe'[k] = pipe[k]  BY <1>1, <1>2, <1>5
    <3>5. QED  BY <3>3, <3>4
  <2>3. QED  BY <2>1, <2>2
<1>15. Final(pipe'[p + q]) /\ pipe'[p + q].of = n
  <2>1. p + q \in 1 .. p + q /\ pipe'[p + q] = ls[q] /\ q \in 1 .. q  BY <1>1, <1>2, <1>5
  <2>2. QED  BY <1>2, <2>1
<1>16. PipeInv'
  BY <1>4, <1>5, <1>9, <1>11, <1>12, <1>13, <1>14, <1>15 DEF PipeInv, Follows, First, Final
<1>17. QED  BY <1>1, <1>2, <1>3, <1>4, <1>5, <1>6, <1>7, <1>8, <1>9, <1>16

(* LEMMA: reading a line moves on to the next one, in the same message or  *)
(* at the beginning of the next.                                           *)
LEMMA ReadsKeepsPipe ==
  ASSUME Types, PipeInv, Reads
  PROVE  /\ LineOf(Line) /\ Reading = Line.of
         /\ pipe' \in Seq(LineSet) /\ Len(pipe') <= MaxLines
         /\ PipeInv'
         /\ Final(Line) => Reading' = Reading + 1 /\ Between'
         /\ ~Final(Line) => /\ pipe' # <<>> /\ Reading' = Reading
                            /\ Line'.tag = Successor(Line.tag) /\ LineOf(Line')
<1> DEFINE p == Len(pipe)
<1>1. pipe # <<>> /\ pipe' = Tail(pipe) /\ written' = written  BY DEF Reads
<1>2. p \in Nat \ {0} /\ Line = pipe[1] /\ p <= MaxLines  BY <1>1 DEF Types, Line
<1>3. /\ pipe' \in Seq(LineSet) /\ Len(pipe') = p - 1
      /\ \A k \in 1 .. p - 1 : pipe'[k] = pipe[k + 1]
  BY <1>1, HeadTailProperties DEF Types
<1>4. LineOf(Line) /\ Reading = Line.of  BY <1>1, <1>2 DEF PipeInv, Reading, Line
<1>5. ASSUME NEW k \in 1 .. p - 1 PROVE LineOf(pipe[k])' /\ LineOf(pipe'[k])
  <2>1. k + 1 \in 1 .. p /\ pipe'[k] = pipe[k + 1]  BY <1>2, <1>3
  <2>2. LineOf(pipe[k + 1])  BY <2>1 DEF PipeInv
  <2>3. QED  BY <1>1, <2>1, <2>2 DEF LineOf
<1>6. \A k \in 1 .. p - 1 : k > 1 => Follows(pipe'[k - 1], pipe'[k])
  <2> SUFFICES ASSUME NEW k \in 1 .. p - 1, k > 1 PROVE Follows(pipe'[k - 1], pipe'[k])
    OBVIOUS
  <2>1. k + 1 \in 1 .. p /\ k + 1 > 1 /\ k - 1 \in 1 .. p - 1  BY <1>2
  <2>2. pipe'[k] = pipe[k + 1] /\ pipe'[k - 1] = pipe[(k + 1) - 1]
    <3>1. (k - 1) + 1 = (k + 1) - 1  OBVIOUS
    <3>2. QED  BY <1>3, <2>1, <3>1
  <2>3. QED  BY <2>1, <2>2 DEF PipeInv
<1>7. \A k, l \in 1 .. p - 1 : k <= l => pipe'[k].of <= pipe'[l].of
  <2> SUFFICES ASSUME NEW k \in 1 .. p - 1, NEW l \in 1 .. p - 1, k <= l
               PROVE  pipe'[k].of <= pipe'[l].of
    OBVIOUS
  <2>1. k + 1 \in 1 .. p /\ l + 1 \in 1 .. p /\ k + 1 <= l + 1  BY <1>2
  <2>2. QED  BY <1>3, <2>1 DEF PipeInv
<1>8. Line.of \in 1 .. Len(written) /\ Len(written) \in Nat  BY <1>4 DEF LineOf, Types
<1>9. CASE p = 1
  <2>1. pipe' = <<>>  BY <1>3, <1>9
  <2>2. Final(Line) /\ Line.of = Len(written)  BY <1>1, <1>2, <1>9 DEF PipeInv
  <2>3. Reading' = Reading + 1 /\ Between'  BY <1>1, <1>4, <2>1, <2>2 DEF Reading, Between
  <2>4. PipeInv'
    <3>1. Reading' .. Len(written') = {}  BY <1>1, <1>4, <1>8, <2>2, <2>3
    <3>2. 1 .. Len(pipe') = {}  BY <1>3, <1>9
    <3>3. QED  BY <2>1, <3>1, <3>2 DEF PipeInv
  <2>5. QED  BY <1>2, <1>3, <1>4, <1>9, <2>2, <2>3, <2>4, BoundsAssumption
<1>10. CASE p > 1
  <2>1. 2 \in 1 .. p /\ 1 \in 1 .. p - 1 /\ pipe'[1] = pipe[2]  BY <1>2, <1>3, <1>10
  <2>2. pipe' # <<>> /\ Line' = pipe'[1] /\ Head(pipe') = pipe'[1]  BY <1>3, <1>10 DEF Line
  <2>3. Follows(Line, Line')
    <3>1. Follows(pipe[2 - 1], pipe[2])  BY <2>1 DEF PipeInv
    <3>2. QED  BY <1>2, <2>1, <2>2, <3>1
  <2>4. Reading' = Line'.of  BY <2>2 DEF Reading, Line
  <2>5. Final(Line) => Reading' = Reading + 1 /\ Between'
    BY <1>4, <2>2, <2>3, <2>4 DEF Follows, Between, First
  <2>6. ~Final(Line) => Reading' = Reading /\ Line'.tag = Successor(Line.tag)
    BY <1>4, <2>3, <2>4 DEF Follows
  <2>7. LineOf(Line')  BY <1>5, <2>1, <2>2
  <2>8. ASSUME NEW i \in Reading' .. Len(written) PROVE \E k \in 1 .. p - 1 : pipe'[k].of = i
    <3>0. Reading' = Reading \/ Reading' = Reading + 1  BY <2>5, <2>6
    <3>1. i \in Reading .. Len(written) /\ i \in Int  BY <1>4, <1>8, <3>0
    <3>2. PICK k \in 1 .. p : pipe[k].of = i  BY <3>1 DEF PipeInv
    <3>3. CASE k = 1
      <4>1. i = Reading  BY <1>2, <1>4, <3>2, <3>3
      <4>2. Reading' = Reading  BY <1>4, <1>8, <3>0, <4>1
      <4>3. pipe'[1].of = i  BY <2>2, <2>4, <4>1, <4>2
      <4>4. QED  BY <2>1, <4>3
    <3>4. CASE k # 1
      <4>1. k - 1 \in 1 .. p - 1 /\ (k - 1) + 1 = k  BY <1>2, <3>4
      <4>2. pipe'[k - 1].of = i  BY <1>3, <3>2, <4>1
      <4>3. QED  BY <4>1, <4>2
    <3>5. QED  BY <3>3, <3>4
  <2>9. Final(pipe'[p - 1]) /\ pipe'[p - 1].of = Len(written)
    <3>1. p - 1 \in 1 .. p - 1 /\ (p - 1) + 1 = p  BY <1>2, <1>10
    <3>2. pipe'[p - 1] = pipe[p]  BY <1>3, <3>1
    <3>3. QED  BY <1>1, <3>2 DEF PipeInv
  <2>10. PipeInv'
    BY <1>1, <1>3, <1>5, <1>6, <1>7, <2>8, <2>9 DEF PipeInv, Follows, First, Final
  <2>11. QED  BY <1>2, <1>3, <1>4, <2>2, <2>5, <2>6, <2>7, <2>10, BoundsAssumption
<1>11. QED  BY <1>2, <1>9, <1>10
-----------------------------------------------------------------------------
(* What a line says of its message, and what cip and the calls keep.       *)

(* LEMMA: a line stands at a place of its message, with that place's text. *)
LEMMA LineSays ==
  ASSUME Types, PipeInv, Reads
  PROVE  LET m == written[Reading] IN
         /\ pipe # <<>> /\ Reading = Line.of /\ Reading \in 1 .. Len(written)
         /\ m \in Message
         /\ Between <=> First(Line)
         /\ Line.tag \in {"SYNC", "CO", "HE", "IP", "FR", "TO", "TW"}
         /\ Line.text \in Target \cup {"text"}
         /\ Line.tag = "SYNC" => m.kind = "sync" /\ ~Short
         /\ Line.tag = "TW" => m.kind = "tw" /\ ~Short
         /\ Line.tag = "CO" => m.kind = "tuple" /\ Line.text = m.co
         /\ Line.tag = "HE" => (Short <=> ~m.helo)
         /\ Line.tag \in {"IP", "FR", "TO"} => m.kind # "tw" /\ ~Short
<1> DEFINE m == written[Reading]
<1>1. pipe # <<>>  BY DEF Reads
<1>2. LineOf(Line) /\ Reading = Line.of  BY ReadsKeepsPipe
<1>3. Reading \in 1 .. Len(written) /\ m \in Message  BY <1>2 DEF LineOf, Types
<1>4. /\ Line.tag \in Tags(m.kind) /\ Line.text = Text(m, Line.tag)
  BY <1>2 DEF LineOf
<1>5. Between <=> First(Line)  BY <1>1 DEF Between, Line
<1>6. Line \in LineSet  BY <1>1 DEF Types, Line
<1>7. /\ Line.tag \in {"SYNC", "CO", "HE", "IP", "FR", "TO", "TW"}
      /\ Line.text \in Target \cup {"text"}
  BY <1>6 DEF LineSet
<1>8. m.kind \in {"tuple", "sync", "tw"}  BY <1>3 DEF Message
<1> HIDE DEF m
<1>9. /\ Line.tag = "SYNC" => m.kind = "sync"
      /\ Line.tag = "TW" => m.kind = "tw"
      /\ Line.tag = "CO" => m.kind = "tuple"
      /\ Line.tag \in {"IP", "FR", "TO"} => m.kind # "tw"
  BY <1>4, <1>8 DEF Tags
<1>10. /\ Line.tag = "CO" => Line.text = m.co
       /\ Line.tag = "HE" => Line.text = IF m.helo THEN "text" ELSE ""
       /\ Line.tag \in {"SYNC", "TW", "IP", "FR", "TO"} => Line.text = "text"
  BY <1>4 DEF Text
<1>11. /\ Line.tag = "HE" => (Short <=> ~m.helo)
       /\ Line.tag \in {"SYNC", "TW", "IP", "FR", "TO"} => ~Short
  BY <1>10 DEF Short
<1>12. QED  BY <1>1, <1>2, <1>3, <1>5, <1>7, <1>9, <1>10, <1>11 DEF m

(* LEMMA: the numbers up to n and those before n.                          *)
LEMMA UpTo ==
  ASSUME NEW n \in Nat, n >= 1
  PROVE  /\ n \in 1 .. n /\ \A i \in 1 .. n : ~(i > n)
         /\ \A i \in 1 .. n : i = n \/ i \in 1 .. n - 1
         /\ \A i \in 1 .. n - 1 : i \in 1 .. n
OBVIOUS

(* LEMMA: a message without a target does not change what is remembered.   *)
LEMMA RememberSkip ==
  ASSUME NEW n \in Nat, n >= 1, Remembers(n - 1), written[n].co = ""
  PROVE  Remembers(n)
<1>a. \A i \in 1 .. n : i = n \/ i \in 1 .. n - 1  BY UpTo
<1>1. CASE cip # "low" /\ \A i \in 1 .. n - 1 : written[i].co = ""
  <2>1. \A i \in 1 .. n : written[i].co = ""  BY <1>a, <1>1, Zenon
  <2>2. QED  BY <1>1, <2>1 DEF Remembers
<1>2. CASE /\ cip # ""
           /\ \E k \in 1 .. n - 1 : /\ written[k].co = cip
                                    /\ \A i \in 1 .. n - 1 : i > k => written[i].co = ""
  <2>1. PICK k \in 1 .. n - 1 : /\ written[k].co = cip
                                /\ \A i \in 1 .. n - 1 : i > k => written[i].co = ""
    BY <1>2
  <2>2. k \in 1 .. n  BY UpTo
  <2>2a. \A i \in 1 .. n : i > k => written[i].co = ""  BY <1>a, <2>1, Zenon
  <2>3. QED  BY <1>2, <2>1, <2>2, <2>2a DEF Remembers
<1>3. QED  BY <1>1, <1>2 DEF Remembers

(* LEMMA: a message with a target is what is remembered next.              *)
LEMMA RememberThis ==
  ASSUME NEW n \in Nat, n >= 1, written' = written, cip' = written[n].co, cip' # ""
  PROVE  Remembers(n)'
<1>1. n \in 1 .. n /\ \A i \in 1 .. n : ~(i > n)  BY UpTo
<1>2. QED  BY <1>1 DEF Remembers

(* LEMMA: what a call has a number for has been read.                      *)
LEMMA CallsOfRead ==
  ASSUME CallsInv, NEW k \in 1 .. Len(updates)
  PROVE  /\ Number(updates[k]) \in 1 .. Reading - 1
         /\ IsTuple(updates[k]) => updates[k].to \in 1 .. Reading - 1
<1>1. Number(updates[k]) \in {i \in 1 .. Reading - 1 : written[i].helo}  BY DEF CallsInv
<1>2. IsTuple(updates[k]) => Number(updates[k]) = updates[k].to  BY DEF Number
<1>3. QED  BY <1>1, <1>2

(* LEMMA: a step without a call keeps CallsInv if no message with a HELO   *)
(* is left behind.                                                         *)
LEMMA KeepCalls ==
  ASSUME Types, CallsInv, Reading \in Nat, written' = written, updates' = updates,
         \/ Reading' = Reading
         \/ Reading' = Reading + 1 /\ ~written[Reading].helo
  PROVE  CallsInv' /\ updates' \in Seq(CallSet)
<1>1. Len(updates) \in Nat  BY DEF Types
<1>2. {i \in 1 .. Reading' - 1 : written[i].helo} = {i \in 1 .. Reading - 1 : written[i].helo}
  <2>1. CASE Reading' = Reading  BY <2>1
  <2>2. CASE Reading' = Reading + 1 /\ ~written[Reading].helo  BY <2>2
  <2>3. QED  BY <2>1, <2>2
<1>3. Len(updates) <= Reading' - 1  BY <1>1 DEF CallsInv
<1>4. QED  BY <1>2, <1>3 DEF CallsInv, Types, Number, IsTuple

(* LEMMA: a call with the present message's fields, when that message has  *)
(* been read, keeps CallsInv.                                              *)
LEMMA AppendCall ==
  ASSUME Types, CallsInv, Reading \in Nat, Reading >= 1, written' = written,
         Reading' = Reading + 1, written[Reading].helo,
         NEW u \in CallSet, updates' = Append(updates, u), Number(u) = Reading,
         IsTuple(u) => /\ u.helo = u.to /\ u.ip = u.to /\ u.from = u.to
                       /\ u.sync <=> written[u.to].kind = "tuple"
  PROVE  CallsInv' /\ updates' \in Seq(CallSet)
<1> DEFINE n == Len(updates)
<1>1. n \in Nat /\ n <= Reading - 1  BY DEF Types, CallsInv
<1>2. /\ updates' \in Seq(CallSet) /\ Len(updates') = n + 1
      /\ \A k \in 1 .. n : updates'[k] = updates[k]
      /\ updates'[n + 1] = u
  BY AppendProperties DEF Types
<1>3. 1 .. n + 1 = (1 .. n) \cup {n + 1}  BY <1>1
<1>4. {Number(updates'[k]) : k \in 1 .. n + 1} = {Number(updates[k]) : k \in 1 .. n} \cup {Reading}
  <2>1. {Number(updates'[k]) : k \in 1 .. n + 1}
          = {Number(updates'[k]) : k \in 1 .. n} \cup {Number(updates'[n + 1])}
    BY <1>3
  <2>2. {Number(updates'[k]) : k \in 1 .. n} = {Number(updates[k]) : k \in 1 .. n}
    BY <1>2
  <2>3. QED  BY <1>2, <2>1, <2>2
<1>5. {i \in 1 .. Reading' - 1 : written'[i].helo}
        = {i \in 1 .. Reading - 1 : written[i].helo} \cup {Reading}
  OBVIOUS
<1>6. ASSUME NEW k \in 1 .. n + 1, NEW l \in 1 .. n + 1, k < l
      PROVE  Number(updates'[k]) < Number(updates'[l])
  <2>1. k \in 1 .. n /\ (l \in 1 .. n \/ l = n + 1)  BY <1>1, <1>6
  <2>2. CASE l \in 1 .. n  BY <1>2, <1>6, <2>1, <2>2 DEF CallsInv
  <2>3. CASE l = n + 1
    <3>1. Number(updates[k]) \in 1 .. Reading - 1  BY <2>1, CallsOfRead
    <3>2. QED  BY <1>2, <2>1, <2>3, <3>1
  <2>4. QED  BY <2>1, <2>2, <2>3
<1>7. ASSUME NEW k \in 1 .. n + 1, IsTuple(updates'[k])
      PROVE  LET v == updates'[k] IN
             /\ v.helo = v.to /\ v.ip = v.to /\ v.from = v.to
             /\ v.sync <=> written[v.to].kind = "tuple"
  <2>1. CASE k \in 1 .. n
    <3>1. updates'[k] = updates[k]  BY <1>2, <2>1
    <3>2. IsTuple(updates[k])  BY <1>7, <3>1
    <3>3. QED  BY <2>1, <3>1, <3>2 DEF CallsInv
  <2>2. CASE k = n + 1  BY <1>2, <1>7, <2>2
  <2>3. QED  BY <1>1, <2>1, <2>2
<1>8. {Number(updates[k]) : k \in 1 .. n} = {i \in 1 .. Reading - 1 : written[i].helo}
  BY DEF CallsInv
<1>9. QED  BY <1>1, <1>2, <1>4, <1>5, <1>6, <1>7, <1>8 DEF CallsInv, Number, IsTuple
-----------------------------------------------------------------------------
(* Each action keeps the invariant.                                        *)

(* LEMMA: the invariant holds at the start.                                *)
LEMMA InitInv == ASSUME Init PROVE Inv
<1>1. Len(written) = 0 /\ Len(pipe) = 0 /\ Len(updates) = 0 /\ pipe = <<>>  BY DEF Init
<1>2. Reading = 1 /\ Between  BY <1>1 DEF Reading, Between
<1>3. Types
  <2>1. written \in Seq(Message) /\ pipe \in Seq(LineSet) /\ updates \in Seq(CallSet)
    BY DEF Init
  <2>2. 0 \in 0 .. MaxMessages /\ 0 <= MaxMessages /\ 0 <= MaxLines  BY BoundsAssumption
  <2>3. cip \in Target /\ {helo, ip, from} \subseteq 0 .. MaxMessages
    BY <2>2 DEF Init
  <2>4. QED  BY <1>1, <2>1, <2>2, <2>3 DEF Init, Types
<1>4. PipeInv
  <2>1. 1 .. Len(pipe) = {} /\ Reading .. Len(written) = {}  BY <1>1, <1>2
  <2>2. QED  BY <1>1, <2>1 DEF PipeInv
<1>5. ReaderInv  BY <1>2 DEF Init, ReaderInv
<1>6. CipInv
  <2>1. Reading - 1 = 0 /\ 1 .. 0 = {} /\ cip # "low"  BY <1>2 DEF Init
  <2>2. QED  BY <1>2, <2>1 DEF CipInv, Remembers
<1>7. CallsInv
  <2>1. 1 .. Len(updates) = {} /\ 1 .. Reading - 1 = {}  BY <1>1, <1>2
  <2>2. QED  BY <1>1, <1>2, <2>1 DEF CallsInv
<1>8. QED  BY <1>3, <1>4, <1>5, <1>6, <1>7 DEF Inv

(* LEMMA: writing a message keeps the invariant.                           *)
LEMMA WriteStep == ASSUME Inv, NEW m \in Message, Write(m) PROVE Inv'
<1> USE DEF Inv
<1>1. /\ written' \in Seq(Message) /\ Len(written') = Len(written) + 1
      /\ Len(written') <= MaxMessages
      /\ \A i \in 1 .. Len(written) : written'[i] = written[i]
      /\ pipe' \in Seq(LineSet) /\ Len(pipe') <= MaxLines /\ pipe' # <<>>
      /\ PipeInv' /\ Reading' = Reading
      /\ IF pipe = <<>> THEN First(Head(pipe')) ELSE Head(pipe') = Head(pipe)
  BY WriteKeepsPipe
<1>2. UNCHANGED <<state, sync, cip, helo, ip, from, updates>>  BY DEF Write, fields
<1>3. Types'  BY <1>1, <1>2 DEF Types
<1>4. Between' <=> Between  BY <1>1 DEF Between, First
<1>5. /\ Reading \in 1 .. Len(written) + 1 /\ Len(written) \in Nat
      /\ ~Between => Reading \in 1 .. Len(written) /\ Line' = Line
  <2>1. Reading \in 1 .. Len(written) + 1 /\ Len(written) \in Nat  BY ReadIsBefore DEF Types
  <2>2. ASSUME ~Between PROVE Reading \in 1 .. Len(written) /\ Line' = Line
    <3>1. pipe # <<>>  BY <2>2 DEF Between
    <3>2. Len(pipe) \in Nat \ {0} /\ Head(pipe) = pipe[1]  BY <3>1 DEF Types
    <3>3. LineOf(pipe[1])  BY <3>2 DEF PipeInv
    <3>4. QED  BY <1>1, <3>1, <3>2, <3>3 DEF LineOf, Reading, Line
  <2>3. QED  BY <2>1, <2>2
<1>6. ReaderInv'
  <2>1. CASE Between  BY <1>2, <1>4, <2>1 DEF ReaderInv
  <2>2. CASE ~Between
    <3>1. written'[Reading'] = written[Reading] /\ Line'.tag = Line.tag  BY <1>1, <1>5, <2>2
    <3>2. QED  BY <1>1, <1>2, <1>4, <2>2, <3>1 DEF ReaderInv
  <2>3. QED  BY <2>1, <2>2
<1>7. CipInv'
  <2>1. ASSUME NEW n \in 0 .. Len(written), Remembers(n) PROVE Remembers(n)'
    <3>1. \A i \in 1 .. n : written'[i] = written[i]  BY <1>1, <1>5
    <3>2. QED  BY <1>2, <2>1, <3>1 DEF Remembers
  <2>2. CASE Between
    <3>1. Reading - 1 \in 0 .. Len(written) /\ Remembers(Reading - 1)
      BY <1>5, <2>2 DEF CipInv
    <3>2. Remembers(Reading - 1)'  BY <1>1, <2>1, <3>1
    <3>3. QED  BY <1>1, <1>4, <2>2, <3>2 DEF CipInv
  <2>3. CASE ~Between
    <3>1. Reading \in 0 .. Len(written) /\ Remembers(Reading)  BY <1>5, <2>3 DEF CipInv
    <3>2. Remembers(Reading)'  BY <1>1, <2>1, <3>1
    <3>3. QED  BY <1>1, <1>4, <2>3, <3>2 DEF CipInv
  <2>4. QED  BY <2>2, <2>3
<1>8. CallsInv'
  <2>1. \A i \in 1 .. Reading - 1 : written'[i] = written[i]  BY <1>1, <1>5
  <2>2. {i \in 1 .. Reading' - 1 : written'[i].helo} = {i \in 1 .. Reading - 1 : written[i].helo}
    BY <1>1, <2>1
  <2>3. ASSUME NEW k \in 1 .. Len(updates), IsTuple(updates[k])
        PROVE  LET u == updates[k] IN
               /\ u.helo = u.to /\ u.ip = u.to /\ u.from = u.to
               /\ u.sync <=> written'[u.to].kind = "tuple"
    <3>1. written'[updates[k].to] = written[updates[k].to]  BY <2>1, <2>3, CallsOfRead
    <3>2. QED  BY <2>3, <3>1 DEF CallsInv
  <2>4. QED  BY <1>1, <1>2, <2>2, <2>3 DEF CallsInv, Number, IsTuple
<1>9. QED  BY <1>1, <1>3, <1>6, <1>7, <1>8

(* LEMMA: dropping a line that says nothing keeps the invariant.           *)
LEMMA ReadShortStep == ASSUME Inv, ReadShort PROVE Inv'
<1> USE DEF Inv
<1>1. Reads /\ Short /\ UNCHANGED <<state, sync, cip, helo, ip, from, updates>>
      /\ UNCHANGED written
  BY DEF ReadShort, Reads, fields
<1>2. /\ pipe # <<>> /\ Reading = Line.of /\ Reading \in 1 .. Len(written)
      /\ written[Reading] \in Message
      /\ Between <=> First(Line)
      /\ Line.tag \in {"CO", "HE"}
      /\ Line.tag = "CO" => written[Reading].kind = "tuple" /\ Line.text = written[Reading].co
      /\ Line.tag = "HE" => ~written[Reading].helo
  BY <1>1, LineSays
<1>3. ~Final(Line)  BY <1>2 DEF Final
<1>4. /\ pipe' \in Seq(LineSet) /\ Len(pipe') <= MaxLines /\ PipeInv' /\ pipe' # <<>>
      /\ Reading' = Reading /\ Line'.tag = Successor(Line.tag)
  BY <1>1, <1>3, ReadsKeepsPipe
<1>5. Line'.tag = (IF Line.tag = "CO" THEN "HE" ELSE "IP")  BY <1>2, <1>4 DEF Successor
<1>6. ~Between'  BY <1>4, <1>5 DEF Between, First, Line
<1>7. Types'  BY <1>1, <1>4 DEF Types
<1>8. Between <=> Line.tag = "CO"  BY <1>2 DEF First
<1>9. ReaderInv'
  <2>1. CASE Line.tag = "CO"
    <3>1. state = 0 /\ sync = TRUE  BY <1>8, <2>1 DEF ReaderInv, Types
    <3>2. sync' = (written'[Reading'].kind = "tuple")  BY <1>1, <1>2, <1>4, <2>1, <3>1
    <3>3. QED  BY <1>1, <1>5, <1>6, <2>1, <3>1, <3>2 DEF ReaderInv
  <2>2. CASE Line.tag = "HE"
    <3>1. state = 0 /\ sync = (written[Reading].kind = "tuple")
      BY <1>2, <1>8, <2>2 DEF ReaderInv
    <3>2. QED  BY <1>1, <1>2, <1>4, <1>5, <1>6, <2>2, <3>1 DEF ReaderInv
  <2>3. QED  BY <1>2, <2>1, <2>2
<1>10. CipInv'
  <2>1. Remembers(Reading)
    <3>1. CASE Line.tag = "CO"
      <4>1. Remembers(Reading - 1)  BY <1>8, <3>1 DEF CipInv
      <4>2. written[Reading].co = ""  BY <1>1, <1>2, <3>1 DEF Short
      <4>3. Reading \in Nat /\ Reading >= 1  BY <1>2
      <4>4. QED  BY <4>1, <4>2, <4>3, RememberSkip
    <3>2. CASE Line.tag = "HE"  BY <1>8, <3>2 DEF CipInv
    <3>3. QED  BY <1>2, <3>1, <3>2
  <2>2. Remembers(Reading)'  BY <1>1, <1>4, <2>1 DEF Remembers
  <2>3. QED  BY <1>6, <2>2 DEF CipInv
<1>11. CallsInv'  BY <1>1, <1>2, <1>4, KeepCalls
<1>12. QED  BY <1>4, <1>7, <1>9, <1>10, <1>11

(* LEMMA: reading SYNC keeps the invariant.                                *)
LEMMA ReadSyncStep == ASSUME Inv, ReadSync PROVE Inv'
<1> USE DEF Inv
<1>1. Reads /\ Line.tag = "SYNC" /\ sync' = FALSE
      /\ UNCHANGED <<written, state, cip, helo, ip, from, updates>>
  BY DEF ReadSync, Reads, fields
<1>2. /\ pipe # <<>> /\ Reading = Line.of /\ Reading \in 1 .. Len(written)
      /\ written[Reading] \in Message /\ written[Reading].kind = "sync"
      /\ Between <=> First(Line)
  BY <1>1, LineSays
<1>3. ~Final(Line) /\ Between  BY <1>1, <1>2 DEF Final, First
<1>4. /\ pipe' \in Seq(LineSet) /\ Len(pipe') <= MaxLines /\ PipeInv' /\ pipe' # <<>>
      /\ Reading' = Reading /\ Line'.tag = "HE"
  BY <1>1, <1>3, ReadsKeepsPipe DEF Successor
<1>5. ~Between'  BY <1>4 DEF Between, First, Line
<1>6. Types'  BY <1>1, <1>4 DEF Types
<1>7. state = 0 /\ Remembers(Reading - 1)  BY <1>3 DEF ReaderInv, CipInv
<1>8. ReaderInv'
  <2>1. sync' = (written'[Reading'].kind = "tuple")  BY <1>1, <1>2, <1>4, Zenon
  <2>2. QED  BY <1>1, <1>4, <1>5, <1>7, <2>1 DEF ReaderInv
<1>9. CipInv'
  <2>1. written[Reading].co = ""  BY <1>2 DEF Message
  <2>2. Reading \in Nat /\ Reading >= 1  BY <1>2
  <2>2a. Remembers(Reading)  BY <1>7, <2>1, <2>2, RememberSkip
  <2>3. Remembers(Reading)'  BY <1>1, <1>4, <2>2a DEF Remembers
  <2>4. QED  BY <1>5, <2>3 DEF CipInv
<1>10. CallsInv'  BY <1>1, <1>2, <1>4, KeepCalls
<1>11. QED  BY <1>4, <1>6, <1>8, <1>9, <1>10
(* LEMMA: where greyreader is in its message, by its state.                *)
LEMMA StateSays ==
  ASSUME Inv, Reads, ~Short, Line.tag # "SYNC"
  PROVE  /\ state = 0 <=> \/ Line.tag \in {"CO", "TW", "HE"}
                          \/ Line.tag \in {"IP", "FR", "TO"} /\ ~written[Reading].helo
         /\ state = 1 <=> Line.tag = "IP" /\ written[Reading].helo
         /\ state = 2 <=> Line.tag = "FR" /\ written[Reading].helo
         /\ state = 3 <=> Line.tag = "TO" /\ written[Reading].helo
         /\ Line.tag \in {"CO", "TW"} => Between /\ sync = TRUE
         /\ Line.tag \in {"HE", "IP", "FR", "TO"} =>
              ~Between /\ sync = (written[Reading].kind = "tuple")
         /\ Line.tag = "HE" => written[Reading].helo
<1> USE DEF Inv
<1>1. /\ Between <=> First(Line)
      /\ Line.tag \in {"CO", "HE", "IP", "FR", "TO", "TW"}
      /\ Line.tag = "HE" => written[Reading].helo
  BY LineSays
<1>2. Between <=> Line.tag \in {"CO", "TW"}  BY <1>1 DEF First
<1>3. CASE Line.tag \in {"CO", "TW"}
  BY <1>2, <1>3 DEF ReaderInv, Types
<1>4. CASE Line.tag = "HE"  BY <1>1, <1>2, <1>4 DEF ReaderInv
<1>5. CASE Line.tag = "IP"  BY <1>1, <1>2, <1>5 DEF ReaderInv
<1>6. CASE Line.tag = "FR"  BY <1>1, <1>2, <1>6 DEF ReaderInv
<1>7. CASE Line.tag = "TO"  BY <1>1, <1>2, <1>7 DEF ReaderInv
<1>8. QED  BY <1>1, <1>3, <1>4, <1>5, <1>6, <1>7

(* LEMMA: a step that stays within the message keeps the invariant if it   *)
(* leaves state, sync, cip and the buffers as the next line needs them.    *)
LEMMA WithinMessage ==
  ASSUME Inv, Reads, ~Final(Line), Types',
         updates' = updates,
         sync' = (written[Reading].kind = "tuple"),
         Remembers(Reading)',
         state' = IF ~written[Reading].helo THEN 0
                  ELSE CASE Successor(Line.tag) = "HE" -> 0
                         [] Successor(Line.tag) = "IP" -> 1
                         [] Successor(Line.tag) = "FR" -> 2
                         [] Successor(Line.tag) = "TO" -> 3,
         state' >= 1 => helo' = Reading,
         state' >= 2 => ip' = Reading,
         state' >= 3 => from' = Reading
  PROVE  Inv'
<1> USE DEF Inv
<1>1. /\ Reading \in 1 .. Len(written) /\ written' = written
      /\ Line.tag \in {"SYNC", "CO", "HE", "IP", "FR"}
  <2>1. /\ Reading \in 1 .. Len(written)
        /\ Line.tag \in {"SYNC", "CO", "HE", "IP", "FR", "TO", "TW"}
    BY LineSays
  <2>2. QED  BY <2>1 DEF Reads, Final
<1>2. /\ PipeInv' /\ pipe' # <<>> /\ Reading' = Reading
      /\ Line'.tag = Successor(Line.tag)
  BY ReadsKeepsPipe
<1>3. Line'.tag \in {"HE", "IP", "FR", "TO"}  BY <1>1, <1>2 DEF Successor
<1>4. ~Between'  BY <1>2, <1>3 DEF Between, First, Line
<1>5. ReaderInv'
  <2>1. sync' = (written'[Reading'].kind = "tuple")  BY <1>1, <1>2
  <2>2. state' = IF ~written'[Reading'].helo THEN 0
                 ELSE CASE Line'.tag = "HE" -> 0
                        [] Line'.tag = "IP" -> 1
                        [] Line'.tag = "FR" -> 2
                        [] Line'.tag = "TO" -> 3
    BY <1>1, <1>2
  <2>3. /\ state' >= 1 => helo' = Reading'
        /\ state' >= 2 => ip' = Reading'
        /\ state' >= 3 => from' = Reading'
    BY <1>2
  <2>4. QED  BY <1>4, <2>1, <2>2, <2>3 DEF ReaderInv
<1>6. CipInv'  BY <1>2, <1>4 DEF CipInv
<1>7. CallsInv'  BY <1>1, <1>2, KeepCalls
<1>8. QED  BY <1>2, <1>5, <1>6, <1>7

(* LEMMA: a step that reads the last line of a message keeps the invariant *)
(* if it leaves greyreader as it was before the message.                   *)
LEMMA EndOfMessage ==
  ASSUME Inv, Reads, Final(Line), Types', CallsInv',
         state' = 0, sync' = TRUE, cip' = cip, Remembers(Reading)
  PROVE  Inv'
<1> USE DEF Inv
<1>1. written' = written  BY DEF Reads
<1>2. PipeInv' /\ Reading' = Reading + 1 /\ Between'  BY ReadsKeepsPipe
<1>3. ReaderInv'  BY <1>2 DEF ReaderInv
<1>4. CipInv'
  <2>1. Reading \in 1 .. Len(written)  BY LineSays
  <2>2. Reading' - 1 = Reading  BY <1>2, <2>1
  <2>3. \A n \in Nat : Remembers(n) => Remembers(n)'  BY <1>1 DEF Remembers
  <2>4. ASSUME NEW n \in Nat, n = Reading PROVE CipInv'
    <3>1. Remembers(n)  BY <2>4
    <3>2. Remembers(n)'  BY <2>3, <3>1
    <3>3. Reading' - 1 = n  BY <2>2, <2>4
    <3>4. QED  BY <1>2, <3>2, <3>3 DEF CipInv, Remembers
  <2>5. QED  BY <2>1, <2>4
<1>5. QED  BY <1>2, <1>3, <1>4
(* LEMMA: reading a line in state 0 keeps the invariant.                   *)
LEMMA ReadFirstStep == ASSUME Inv, ReadFirst PROVE Inv'
<1> USE DEF Inv
<1>1. /\ Reads /\ ~Short /\ Line.tag # "SYNC" /\ state = 0
      /\ updates' = IF Line.tag = "TW" THEN Append(updates, [tw |-> Line.of]) ELSE updates
      /\ cip' = IF Line.tag = "CO" THEN Line.text ELSE cip
      /\ helo' = IF Line.tag = "HE" THEN Line.of ELSE helo
      /\ state' = IF Line.tag = "HE" THEN 1 ELSE 0
      /\ UNCHANGED <<written, sync, ip, from>>
  BY DEF ReadFirst, Takes, Reads
<1> DEFINE m == written[Reading]
<1>2. /\ pipe # <<>> /\ Reading = Line.of /\ Reading \in 1 .. Len(written) /\ m \in Message
      /\ Line.text \in Target \cup {"text"}
      /\ Line.tag = "TW" => m.kind = "tw"
      /\ Line.tag = "CO" => m.kind = "tuple" /\ Line.text = m.co
  BY <1>1, LineSays
<1>3. /\ \/ Line.tag \in {"CO", "TW", "HE"}
         \/ Line.tag \in {"IP", "FR", "TO"} /\ ~m.helo
      /\ Line.tag \in {"CO", "TW"} => Between /\ sync = TRUE
      /\ Line.tag \in {"HE", "IP", "FR", "TO"} => ~Between /\ sync = (m.kind = "tuple")
      /\ Line.tag = "HE" => m.helo
  <2>1. state = 0 => \/ Line.tag \in {"CO", "TW", "HE"}
                     \/ Line.tag \in {"IP", "FR", "TO"} /\ ~m.helo
    BY <1>1, StateSays
  <2>2. /\ Line.tag \in {"CO", "TW"} => Between /\ sync = TRUE
        /\ Line.tag \in {"HE", "IP", "FR", "TO"} => ~Between /\ sync = (m.kind = "tuple")
        /\ Line.tag = "HE" => m.helo
    BY <1>1, StateSays
  <2>3. QED  BY <1>1, <2>1, <2>2
<1>4. pipe' \in Seq(LineSet) /\ Len(pipe') <= MaxLines /\ Len(written) <= MaxMessages
  BY <1>1, ReadsKeepsPipe DEF Types
<1>5. Reading \in Nat /\ Reading >= 1 /\ Reading \in 0 .. MaxMessages
  BY <1>2, <1>4, BoundsAssumption DEF Types
<1>6. cip' \in Target /\ (Line.tag = "CO" => cip' = m.co /\ cip' # "")
  <2>1. CASE Line.tag = "CO"
    <3>1. m.co \in Target  BY <1>2, <2>1 DEF Message
    <3>2. QED  BY <1>1, <1>2, <2>1, <3>1 DEF Short
  <2>2. CASE Line.tag # "CO"  BY <1>1, <2>2 DEF Types
  <2>3. QED  BY <2>1, <2>2
<1>7. Line.tag # "CO" => cip' = cip  BY <1>1
<1>8. ASSUME updates' \in Seq(CallSet) PROVE Types'
  <2>1. helo' \in 0 .. MaxMessages  BY <1>1, <1>2, <1>5 DEF Types
  <2>2. state' \in 0 .. 3 /\ sync' \in BOOLEAN /\ {ip', from'} \subseteq 0 .. MaxMessages
    BY <1>1 DEF Types
  <2>3. written' \in Seq(Message) /\ Len(written') <= MaxMessages  BY <1>1, <1>4 DEF Types
  <2>4. QED  BY <1>4, <1>6, <1>8, <2>1, <2>2, <2>3 DEF Types
<1>9. CASE Line.tag \in {"CO", "HE", "IP", "FR"}
  <2>1. ~Final(Line) /\ updates' = updates  BY <1>1, <1>9 DEF Final
  <2>2. Types'  BY <1>8, <2>1 DEF Types
  <2>3. Reading' = Reading  BY <1>1, <2>1, ReadsKeepsPipe
  <2>4. sync' = (m.kind = "tuple")
    <3>1. CASE Line.tag = "CO"  BY <1>1, <1>2, <1>3, <3>1
    <3>2. CASE Line.tag \in {"HE", "IP", "FR"}  BY <1>1, <1>3, <3>2
    <3>3. QED  BY <1>9, <3>1, <3>2
  <2>5. Remembers(Reading)'
    <3>1. CASE Line.tag = "CO"
      <4>1. ASSUME NEW n \in Nat, n = Reading PROVE Remembers(n)'
        <5>1. n >= 1 /\ cip' = written[n].co /\ cip' # ""  BY <1>5, <1>6, <3>1, <4>1
        <5>2. QED  BY <1>1, <5>1, RememberThis
      <4>2. QED  BY <1>5, <2>3, <4>1
    <3>2. CASE Line.tag # "CO"
      <4>1. Remembers(Reading)  BY <1>3, <1>9, <3>2 DEF CipInv
      <4>2. QED  BY <1>1, <1>7, <2>3, <3>2, <4>1 DEF Remembers
    <3>3. QED  BY <3>1, <3>2
  <2>6. /\ state' = IF ~m.helo THEN 0
                    ELSE CASE Successor(Line.tag) = "HE" -> 0
                           [] Successor(Line.tag) = "IP" -> 1
                           [] Successor(Line.tag) = "FR" -> 2
                           [] Successor(Line.tag) = "TO" -> 3
        /\ state' >= 1 => helo' = Reading
        /\ state' >= 2 => ip' = Reading
        /\ state' >= 3 => from' = Reading
    <3>1. CASE Line.tag = "CO"  BY <1>1, <3>1 DEF Successor
    <3>2. CASE Line.tag = "HE"  BY <1>1, <1>2, <1>3, <3>2 DEF Successor
    <3>3. CASE Line.tag \in {"IP", "FR"}  BY <1>1, <1>3, <3>3
    <3>4. QED  BY <1>9, <3>1, <3>2, <3>3
  <2>7. QED  BY <1>1, <2>1, <2>2, <2>4, <2>5, <2>6, WithinMessage
<1>10. CASE Line.tag = "TO"
  <2>1. Final(Line) /\ updates' = updates /\ ~m.helo  BY <1>1, <1>3, <1>10 DEF Final
  <2>2. m.kind = "tuple"  BY <1>2, <2>1 DEF Message
  <2>3. sync' = TRUE  BY <1>1, <1>3, <1>10, <2>2
  <2>4. Reading' = Reading + 1  BY <1>1, <2>1, ReadsKeepsPipe
  <2>5. CallsInv'  BY <1>1, <1>5, <2>1, <2>4, KeepCalls
  <2>6. Types'  BY <1>8, <2>1 DEF Types
  <2>7. Remembers(Reading)  BY <1>3, <1>10 DEF CipInv
  <2>8. state' = 0 /\ cip' = cip  BY <1>1, <1>10
  <2>9. QED  BY <1>1, <2>1, <2>3, <2>5, <2>6, <2>7, <2>8, EndOfMessage
<1>11. CASE Line.tag = "TW"
  <2>1. Final(Line) /\ state' = 0 /\ sync' = TRUE /\ cip' = cip /\ Between
    BY <1>1, <1>3, <1>11 DEF Final
  <2>2. m.co = "" /\ m.helo = TRUE  BY <1>2, <1>11 DEF Message
  <2>3. Reading' = Reading + 1  BY <1>1, <2>1, ReadsKeepsPipe
  <2>4. CallsInv' /\ updates' \in Seq(CallSet)
    <3> DEFINE u == [tw |-> Reading]
    <3>1. updates' = Append(updates, u)  BY <1>1, <1>2, <1>11
    <3>2. u \in CallSet /\ ~IsTuple(u) /\ Number(u) = Reading
      BY <1>5 DEF CallSet, IsTuple, Number
    <3> HIDE DEF u
    <3>3. QED  BY <1>1, <1>5, <2>2, <2>3, <3>1, <3>2, AppendCall
  <2>5. Types'  BY <1>8, <2>4
  <2>6. Remembers(Reading)
    <3>1. Remembers(Reading - 1)  BY <2>1 DEF CipInv
    <3>2. QED  BY <1>5, <2>2, <3>1, RememberSkip
  <2>7. QED  BY <1>1, <2>1, <2>4, <2>5, <2>6, EndOfMessage
<1>12. QED  BY <1>3, <1>9, <1>10, <1>11

(* LEMMA: reading a line in state 1 keeps the invariant: it is IP.         *)
LEMMA ReadIpStep == ASSUME Inv, ReadIp PROVE Inv'
<1> USE DEF Inv
<1>1. Reads /\ ~Short /\ Line.tag # "SYNC" /\ state = 1  BY DEF ReadIp, Takes
<1>2. /\ Line.tag = "IP" /\ written[Reading].helo
      /\ ~Between /\ sync = (written[Reading].kind = "tuple")
  BY <1>1, StateSays
<1>3. /\ state' = 2 /\ ip' = Line.of
      /\ UNCHANGED <<written, sync, cip, helo, from, updates>>
  BY <1>2 DEF ReadIp, Takes, Reads
<1>4. ~Final(Line)  BY <1>2 DEF Final
<1>5. /\ Reading = Line.of /\ Reading \in 1 .. Len(written)  BY <1>1, LineSays
<1>6. pipe' \in Seq(LineSet) /\ Len(pipe') <= MaxLines /\ Reading' = Reading
  BY <1>1, <1>4, ReadsKeepsPipe
<1>7. Types'
  <2>1. ip' \in 0 .. MaxMessages  BY <1>3, <1>5, BoundsAssumption DEF Types
  <2>2. QED  BY <1>3, <1>6, <2>1 DEF Types
<1>8. Remembers(Reading)'
  <2>1. Remembers(Reading)  BY <1>2 DEF CipInv
  <2>2. QED  BY <1>3, <1>6, <2>1 DEF Remembers
<1>9. helo' = Reading /\ ip' = Reading  BY <1>1, <1>2, <1>3, <1>5 DEF ReaderInv
<1>10. Successor(Line.tag) = "FR"  BY <1>2 DEF Successor
<1>11. QED  BY <1>1, <1>2, <1>3, <1>4, <1>7, <1>8, <1>9, <1>10, WithinMessage

(* LEMMA: reading a line in state 2 keeps the invariant: it is FR.         *)
LEMMA ReadFromStep == ASSUME Inv, ReadFrom PROVE Inv'
<1> USE DEF Inv
<1>1. Reads /\ ~Short /\ Line.tag # "SYNC" /\ state = 2  BY DEF ReadFrom, Takes
<1>2. /\ Line.tag = "FR" /\ written[Reading].helo
      /\ ~Between /\ sync = (written[Reading].kind = "tuple")
  BY <1>1, StateSays
<1>3. /\ state' = 3 /\ from' = Line.of
      /\ UNCHANGED <<written, sync, cip, helo, ip, updates>>
  BY <1>2 DEF ReadFrom, Takes, Reads
<1>4. ~Final(Line)  BY <1>2 DEF Final
<1>5. /\ Reading = Line.of /\ Reading \in 1 .. Len(written)  BY <1>1, LineSays
<1>6. pipe' \in Seq(LineSet) /\ Len(pipe') <= MaxLines /\ Reading' = Reading
  BY <1>1, <1>4, ReadsKeepsPipe
<1>7. Types'
  <2>1. from' \in 0 .. MaxMessages  BY <1>3, <1>5, BoundsAssumption DEF Types
  <2>2. QED  BY <1>3, <1>6, <2>1 DEF Types
<1>8. Remembers(Reading)'
  <2>1. Remembers(Reading)  BY <1>2 DEF CipInv
  <2>2. QED  BY <1>3, <1>6, <2>1 DEF Remembers
<1>9. helo' = Reading /\ ip' = Reading /\ from' = Reading
  BY <1>1, <1>2, <1>3, <1>5 DEF ReaderInv
<1>10. Successor(Line.tag) = "TO"  BY <1>2 DEF Successor
<1>11. QED  BY <1>1, <1>2, <1>3, <1>4, <1>7, <1>8, <1>9, <1>10, WithinMessage

(* LEMMA: reading a line in state 3 keeps the invariant: it is TO, and the *)
(* call has the present message's fields.                                  *)
LEMMA ReadToStep == ASSUME Inv, ReadTo PROVE Inv'
<1> USE DEF Inv
<1>1. Reads /\ ~Short /\ Line.tag # "SYNC" /\ state = 3  BY DEF ReadTo, Takes
<1>2. /\ Line.tag = "TO" /\ written[Reading].helo
      /\ ~Between /\ sync = (written[Reading].kind = "tuple")
  BY <1>1, StateSays
<1>3. /\ state' = 0 /\ sync' = TRUE /\ updates' = Append(updates, Update)
      /\ UNCHANGED <<written, cip, helo, ip, from>>
  BY <1>2 DEF ReadTo, Takes, Reads, fields
<1>4. Final(Line)  BY <1>2 DEF Final
<1>5. /\ Reading = Line.of /\ Reading \in 1 .. Len(written)  BY <1>1, LineSays
<1>6. pipe' \in Seq(LineSet) /\ Len(pipe') <= MaxLines /\ Reading' = Reading + 1
  BY <1>1, <1>4, ReadsKeepsPipe
<1>7. helo = Reading /\ ip = Reading /\ from = Reading  BY <1>1, <1>2, <1>5 DEF ReaderInv
<1>8. Reading \in Nat /\ Reading >= 1  BY <1>5
<1>9. /\ Update \in CallSet /\ Number(Update) = Reading
      /\ Update.helo = Update.to /\ Update.ip = Update.to /\ Update.from = Update.to
      /\ Update.sync <=> written[Update.to].kind = "tuple"
  <2>1. sync \in BOOLEAN /\ cip \in Target  BY DEF Types
  <2>2. IsTuple(Update)  BY DEF IsTuple, Update
  <2>3. Update.to = Reading /\ Update.sync = sync  BY <1>5 DEF Update
  <2>4. Update \in CallSet  BY <1>5, <1>7, <1>8, <2>1 DEF Update, CallSet
  <2>5. Update.helo = Update.to /\ Update.ip = Update.to /\ Update.from = Update.to
    BY <1>5, <1>7 DEF Update
  <2>6. QED  BY <1>2, <2>2, <2>3, <2>4, <2>5 DEF Number
<1>10. CallsInv' /\ updates' \in Seq(CallSet)
  BY <1>1, <1>2, <1>3, <1>6, <1>8, <1>9, AppendCall
<1>11. Types'  BY <1>3, <1>6, <1>10 DEF Types
<1>12. Remembers(Reading)  BY <1>2 DEF CipInv
<1>13. QED  BY <1>1, <1>3, <1>4, <1>10, <1>11, <1>12, EndOfMessage

(* LEMMA: every step keeps the invariant.                                  *)
LEMMA NextInv == ASSUME Inv, [Next]_vars PROVE Inv'
<1>1. CASE UNCHANGED vars
  <2>1. Types' /\ PipeInv' /\ Reading' = Reading /\ Between' = Between
    BY <1>1 DEF vars, fields, Inv, Types, PipeInv, LineOf, Reading, Between
  <2>2. ReaderInv'  BY <1>1, <2>1 DEF vars, fields, Inv, ReaderInv, Line
  <2>3. CipInv'  BY <1>1, <2>1 DEF vars, fields, Inv, CipInv, Remembers
  <2>4. CallsInv'  BY <1>1, <2>1 DEF vars, Inv, CallsInv, Number, IsTuple
  <2>5. QED  BY <2>1, <2>2, <2>3, <2>4 DEF Inv
<1>2. CASE \E m \in Message : Write(m)  BY <1>2, WriteStep
<1>3. CASE ReadShort  BY <1>3, ReadShortStep
<1>4. CASE ReadSync  BY <1>4, ReadSyncStep
<1>5. CASE ReadFirst  BY <1>5, ReadFirstStep
<1>6. CASE ReadIp  BY <1>6, ReadIpStep
<1>7. CASE ReadFrom  BY <1>7, ReadFromStep
<1>8. CASE ReadTo  BY <1>8, ReadToStep
<1>9. QED  BY <1>1, <1>2, <1>3, <1>4, <1>5, <1>6, <1>7, <1>8 DEF Next

(* LEMMA: the invariant holds in every state.                              *)
LEMMA Invariant == Spec => []Inv
BY InitInv, NextInv, PTL DEF Spec
-----------------------------------------------------------------------------
(* What the runs check, and more, for any number of messages.              *)

(* THEOREM: types, and no more calls than messages.                        *)
THEOREM TypeCorrect == Spec => []TypeOK
<1>1. ASSUME Inv PROVE TypeOK
  <2> USE DEF Inv
  <2>1. Reading \in 1 .. Len(written) + 1 /\ Len(written) \in Nat /\ Len(updates) \in Nat
    BY <1>1, ReadIsBefore DEF Types
  <2>2. Len(updates) <= Len(written)  BY <1>1, <2>1 DEF CallsInv
  <2>3. QED  BY <1>1, <2>2 DEF Types, TypeOK, LineSet
<1>2. QED  BY <1>1, Invariant, PTL

(* LEMMA: the calls, by their places.                                      *)
LEMMA ToSetOfUpdates ==
  ASSUME Types
  PROVE  \A u : u \in ToSet(updates) <=> \E k \in 1 .. Len(updates) : u = updates[k]
BY DEF Types, ToSet

(* THEOREM: what is called is what has been read, once, in order, whole.   *)
THEOREM EachOnce == Spec => []EachMessageOnce
<1>1. ASSUME Inv PROVE EachMessageOnce
  <2> USE DEF Inv
  <2>1. \A u : u \in ToSet(updates) <=> \E k \in 1 .. Len(updates) : u = updates[k]
    BY <1>1, ToSetOfUpdates
  <2>2. {Number(u) : u \in ToSet(updates)} = {Number(updates[k]) : k \in 1 .. Len(updates)}
    BY <2>1
  <2>3. /\ Reading \in 1 .. Len(written) + 1 /\ Len(written) \in Nat
        /\ \A i \in 1 .. Len(written) : Read(i) <=> i < Reading
    BY <1>1, ReadIsBefore DEF Types
  <2>4. {i \in 1 .. Len(written) : written[i].helo /\ Read(i)}
          = {i \in 1 .. Reading - 1 : written[i].helo}
    <3>1. ASSUME NEW i
          PROVE  i \in 1 .. Len(written) /\ Read(i) <=> i \in 1 .. Reading - 1
      <4>1. i \in 1 .. Reading - 1 <=> i \in 1 .. Len(written) /\ i < Reading  BY <2>3
      <4>2. QED  BY <2>3, <4>1
    <3>2. QED  BY <3>1, Zenon
  <2>5. {Number(u) : u \in ToSet(updates)}
          = {i \in 1 .. Len(written) : written[i].helo /\ Read(i)}
    BY <1>1, <2>2, <2>4, Zenon DEF CallsInv
  <2>6. \A k, l \in 1 .. Len(updates) : k < l => Number(updates[k]) < Number(updates[l])
    BY <1>1 DEF CallsInv
  <2>7. ASSUME NEW u \in ToSet(updates), IsTuple(u)
        PROVE  {u.helo, u.ip, u.from} = {u.to}
    <3>1. PICK k \in 1 .. Len(updates) : u = updates[k]  BY <2>1
    <3>2. u.helo = u.to /\ u.ip = u.to /\ u.from = u.to  BY <1>1, <2>7, <3>1 DEF CallsInv
    <3>3. QED  BY <3>2
  <2>8. QED  BY <2>5, <2>6, <2>7 DEF EachMessageOnce
<1>2. QED  BY <1>1, Invariant, PTL

(* THEOREM: SYNC marks the tuple that follows it and no other.             *)
THEOREM SyncMarks == Spec => []SyncMarksItsTuple
<1>1. ASSUME Inv PROVE SyncMarksItsTuple
  <2> SUFFICES ASSUME NEW u \in ToSet(updates), IsTuple(u)
               PROVE  u.sync <=> written[u.to].kind = "tuple"
    BY DEF SyncMarksItsTuple
  <2>1. PICK k \in 1 .. Len(updates) : u = updates[k]  BY <1>1, ToSetOfUpdates DEF Inv
  <2>2. QED  BY <1>1, <2>1 DEF Inv, CallsInv
<1>2. QED  BY <1>1, Invariant, PTL

-----------------------------------------------------------------------------
(* The protocol implements TupleFeed.                                      *)

Taken == Cardinality({i \in 1 .. Len(written) : Read(i)})

(* LEMMA: the messages taken are those before the present one.             *)
LEMMA TakenIsBefore == ASSUME Inv PROVE Taken = Reading - 1 /\ Taken \in Nat
<1>1. /\ Reading \in 1 .. Len(written) + 1 /\ Len(written) \in Nat
      /\ \A i \in 1 .. Len(written) : Read(i) <=> i < Reading
  BY ReadIsBefore DEF Inv, Types
<1>2. {i \in 1 .. Len(written) : Read(i)} = 1 .. Reading - 1
  <2>1. ASSUME NEW i
        PROVE  i \in 1 .. Len(written) /\ Read(i) <=> i \in 1 .. Reading - 1
    <3>1. i \in 1 .. Reading - 1 <=> i \in 1 .. Len(written) /\ i < Reading  BY <1>1
    <3>2. QED  BY <1>1, <3>1
  <2>2. QED  BY <2>1, Zenon
<1>3. Cardinality(1 .. Reading - 1) = Reading - 1
  <2>1. 1 \in Int /\ Reading - 1 \in Int /\ Reading - 1 \in Nat  BY <1>1
  <2>2. Cardinality(1 .. Reading - 1)
          = IF 1 > Reading - 1 THEN 0 ELSE (Reading - 1) - 1 + 1
    BY <2>1, FS_Interval
  <2>3. QED  BY <2>1, <2>2
<1>4. Taken = Reading - 1  BY <1>2, <1>3 DEF Taken
<1>5. QED  BY <1>1, <1>4

(* LEMMA: what cip is remembered to be is the target of the last message   *)
(* that had one.                                                           *)
LEMMA RememberedTarget ==
  ASSUME Types, NEW n \in 0 .. Len(written), Remembers(n)
  PROVE  cip \in Feed!LastTarget(n)
<1> DEFINE with == {i \in 1 .. n : written[i].co # ""}
<1>1. Len(written) \in Nat  BY DEF Types
<1>2. CASE cip # "low" /\ \A i \in 1 .. n : written[i].co = ""
  <2>1. with = {}  BY <1>2
  <2>2. cip \in Target \ {"low"}  BY <1>2 DEF Types
  <2>3. QED  BY <2>1, <2>2 DEF Feed!LastTarget, Feed!Target, Target
<1>3. CASE /\ cip # ""
           /\ \E k \in 1 .. n : /\ written[k].co = cip
                                /\ \A i \in 1 .. n : i > k => written[i].co = ""
  <2>1. PICK k \in 1 .. n : /\ written[k].co = cip
                            /\ \A i \in 1 .. n : i > k => written[i].co = ""
    BY <1>3
  <2>2. k \in with  BY <1>3, <2>1
  <2>2a. k \in Int /\ \A i \in with : i \in Int
    <3>1. \A i \in 1 .. n : i \in Int  BY <1>1
    <3>2. QED  BY <3>1, Zenon
  <2>3. \A i \in with : k >= i
    <3> SUFFICES ASSUME NEW i \in with PROVE k >= i  OBVIOUS
    <3>1. ~(i > k)  BY <2>1
    <3>2. i \in Int /\ k \in Int  BY <2>2a
    <3> HIDE DEF with
    <3>3. QED  BY <3>1, <3>2
  <2>4. Feed!Max(with) = k
    <3>1. \A x \in with : (\A y \in with : x >= y) => x = k
      <4> SUFFICES ASSUME NEW x \in with, \A y \in with : x >= y PROVE x = k  OBVIOUS
      <4>1. x >= k /\ k >= x  BY <2>2, <2>3
      <4>2. x \in Int /\ k \in Int  BY <2>2a
      <4> HIDE DEF with
      <4>3. QED  BY <4>1, <4>2
    <3> HIDE DEF with
    <3>2. QED  BY <2>2, <2>3, <3>1 DEF Feed!Max
  <2>5. QED  BY <2>1, <2>2, <2>4 DEF Feed!LastTarget
<1>4. QED  BY <1>2, <1>3 DEF Remembers
CallOf(u) ==
  IF IsTuple(u) THEN [of |-> {u.helo, u.ip, u.from, u.to}, sync |-> u.sync, cip |-> u.cip]
  ELSE [of |-> {u.tw}]
CallRange == {CallOf(u) : u \in CallSet}

(* LEMMA: the calls, as the feed sees them.                                *)
LEMMA CallsAre ==
  ASSUME Types
  PROVE  /\ Calls = [k \in 1 .. Len(updates) |-> CallOf(updates[k])]
         /\ Calls \in Seq(CallRange) /\ Len(Calls) = Len(updates)
<1>1. Calls = [k \in 1 .. Len(updates) |-> CallOf(updates[k])]
  BY DEF Calls, CallOf
<1>2. Len(updates) \in Nat /\ \A k \in 1 .. Len(updates) : CallOf(updates[k]) \in CallRange
  BY DEF Types, CallRange
<1>3. Calls \in Seq(CallRange)  BY <1>1, <1>2, IsASeq
<1>4. QED  BY <1>1, <1>2, <1>3

(* LEMMA: a call is one more for the feed.                                 *)
LEMMA CallsAppend ==
  ASSUME Types, NEW u \in CallSet, updates' = Append(updates, u)
  PROVE  Calls' = Append(Calls, CallOf(u))
<1> DEFINE n == Len(updates)
           c == CallOf(u)
           next == [k \in 1 .. n + 1 |-> IF k <= n THEN CallOf(updates[k]) ELSE c]
<1>1. n \in Nat  BY DEF Types
<1>2. /\ Len(updates') = n + 1 /\ updates'[n + 1] = u
      /\ \A k \in 1 .. n : updates'[k] = updates[k]
  BY AppendProperties DEF Types
<1>3. Calls' = [k \in 1 .. n + 1 |-> CallOf(updates'[k])]
  BY <1>2 DEF Calls, CallOf, IsTuple
<1>4. \A k \in 1 .. n + 1 : CallOf(updates'[k]) = IF k <= n THEN CallOf(updates[k]) ELSE c
  <2> SUFFICES ASSUME NEW k \in 1 .. n + 1
               PROVE  CallOf(updates'[k]) = IF k <= n THEN CallOf(updates[k]) ELSE c
    OBVIOUS
  <2> HIDE DEF c
  <2>1. CASE k <= n  BY <1>1, <1>2, <2>1
  <2>2. CASE ~(k <= n)  BY <1>1, <1>2, <2>2 DEF c
  <2>3. QED  BY <2>1, <2>2
<1>5. Calls' = next  BY <1>3, <1>4
<1>6. /\ Calls \in Seq(CallRange) /\ Len(Calls) = n
      /\ \A k \in 1 .. n : Calls[k] = CallOf(updates[k])
  BY <1>1, CallsAre
<1>7. c \in CallRange  BY DEF CallRange
<1> HIDE DEF c
<1>8. /\ Append(Calls, c) \in Seq(CallRange) /\ Len(Append(Calls, c)) = n + 1
      /\ Append(Calls, c)[n + 1] = c
      /\ \A k \in 1 .. n : Append(Calls, c)[k] = Calls[k]
  BY <1>6, <1>7, AppendProperties
<1>9. Calls' \in Seq(CallRange) /\ Len(Calls') = n + 1
  <2>1. \A k \in 1 .. n + 1 : updates'[k] \in CallSet  BY <1>2, AppendProperties DEF Types
  <2>2. \A k \in 1 .. n + 1 : CallOf(updates'[k]) \in CallRange  BY <2>1 DEF CallRange
  <2>3. QED  BY <1>1, <1>3, <2>2
<1>10. \A k \in 1 .. n + 1 : Append(Calls, c)[k] = IF k <= n THEN CallOf(updates[k]) ELSE c
  <2> SUFFICES ASSUME NEW k \in 1 .. n + 1
               PROVE  Append(Calls, c)[k] = IF k <= n THEN CallOf(updates[k]) ELSE c
    OBVIOUS
  <2>1. CASE k <= n
    <3>1. k \in 1 .. n  BY <1>1, <2>1
    <3>2. QED  BY <1>6, <1>8, <2>1, <3>1
  <2>2. CASE ~(k <= n)
    <3>1. k = n + 1  BY <1>1, <2>2
    <3>2. QED  BY <1>8, <2>2, <3>1
  <2>3. QED  BY <2>1, <2>2
<1>11. \A k \in 1 .. Len(Calls') : Calls'[k] = Append(Calls, c)[k]  BY <1>5, <1>9, <1>10
<1>12. QED  BY <1>8, <1>9, <1>11, SeqEqual DEF c

(* LEMMA: reading the last line of a message is taking it, if the step     *)
(* calls what the feed calls for it.                                       *)
LEMMA TakeStep ==
  ASSUME Types, Reading \in 1 .. Len(written), UNCHANGED written,
         Taken = Reading - 1, Taken' = Reading,
         IF written[Reading].helo
         THEN \E c \in Feed!Call(Reading) : Calls' = Append(Calls, c)
         ELSE UNCHANGED Calls
  PROVE  Feed!Take
<1>1. Len(written) \in Nat  BY DEF Types
<1>2. Taken < Len(written) /\ Taken' = Taken + 1  BY <1>1
<1>3. IF written[Taken'].helo
      THEN \E c \in Feed!Call(Taken') : Calls' = Append(Calls, c)
      ELSE UNCHANGED Calls
  OBVIOUS
<1>4. QED  BY <1>2, <1>3 DEF Feed!Take, Taken

(* LEMMA: a step maps to a step of the feed or a stutter.                  *)
LEMMA FeedStep ==
  ASSUME Inv, [Next]_vars, Taken = Reading - 1, Taken' = Reading' - 1
  PROVE  [Feed!Next]_Feed!vars
<1> USE DEF Inv
<1>1. Reading \in 1 .. Len(written) + 1  BY ReadIsBefore
<1>2. ASSUME written' = written, updates' = updates, Reading' = Reading
      PROVE  UNCHANGED Feed!vars
  <2>1. Calls' = Calls  BY <1>2 DEF Calls, IsTuple
  <2>2. Taken' = Taken  BY <1>2
  <2>3. QED  BY <1>2, <2>1, <2>2 DEF Feed!vars, Taken
<1>3. ASSUME NEW m \in Message, Write(m) PROVE Feed!Put(m) /\ m \in Feed!Message
  <2>1. Reading' = Reading  BY <1>3, WriteKeepsPipe
  <2>2. Taken' = Taken  BY <2>1
  <2>3. written' = Append(written, m) /\ updates' = updates  BY <1>3 DEF Write
  <2>4. Calls' = Calls  BY <2>3 DEF Calls, IsTuple
  <2>5. m \in Feed!Message  BY DEF Feed!Message, Feed!Target, Message, Target
  <2>6. QED  BY <2>2, <2>3, <2>4, <2>5 DEF Feed!Put, Taken
<1>4. ASSUME Reads, ~Final(Line), updates' = updates PROVE UNCHANGED Feed!vars
  <2>1. Reading' = Reading  BY <1>4, ReadsKeepsPipe
  <2>2. QED  BY <1>2, <1>4, <2>1 DEF Reads
<1>5. ASSUME Reads, Final(Line)
      PROVE  /\ Reading \in 1 .. Len(written) /\ UNCHANGED written /\ Reading = Line.of
             /\ written[Reading] \in Message /\ Taken' = Reading
  <2>1. Reading' = Reading + 1  BY <1>5, ReadsKeepsPipe
  <2>2. Reading \in 1 .. Len(written) /\ Reading = Line.of /\ written[Reading] \in Message
    BY <1>5, LineSays
  <2>3. Taken' = Reading  BY <2>1, <2>2
  <2>4. QED  BY <1>5, <2>2, <2>3 DEF Reads
<1>6. CASE UNCHANGED vars
  <2>1. Reading' = Reading  BY <1>6 DEF vars, Reading
  <2>2. QED  BY <1>2, <1>6, <2>1 DEF vars
<1>7. CASE \E m \in Message : Write(m)  BY <1>3, <1>7 DEF Feed!Next
<1>8. CASE ReadShort
  <2>1. Reads /\ Short /\ updates' = updates  BY <1>8 DEF ReadShort
  <2>2. ~Final(Line)  BY <2>1, LineSays DEF Final
  <2>3. QED  BY <1>4, <2>1, <2>2
<1>9. CASE ReadSync
  <2>1. Reads /\ ~Final(Line) /\ updates' = updates  BY <1>9 DEF ReadSync, Final
  <2>2. QED  BY <1>4, <2>1
<1>10. CASE ReadIp
  <2>1. Reads /\ ~Short /\ Line.tag # "SYNC" /\ state = 1  BY <1>10 DEF ReadIp, Takes
  <2>2. Line.tag = "IP"  BY <2>1, StateSays
  <2>3. updates' = updates /\ ~Final(Line)  BY <1>10, <2>2 DEF ReadIp, Final
  <2>4. QED  BY <1>4, <2>1, <2>3
<1>11. CASE ReadFrom
  <2>1. Reads /\ ~Short /\ Line.tag # "SYNC" /\ state = 2  BY <1>11 DEF ReadFrom, Takes
  <2>2. Line.tag = "FR"  BY <2>1, StateSays
  <2>3. updates' = updates /\ ~Final(Line)  BY <1>11, <2>2 DEF ReadFrom, Final
  <2>4. QED  BY <1>4, <2>1, <2>3
<1>12. CASE ReadFirst
  <2>1. Reads /\ ~Short /\ Line.tag # "SYNC" /\ state = 0
    BY <1>12 DEF ReadFirst, Takes
  <2>2. updates' = IF Line.tag = "TW" THEN Append(updates, [tw |-> Line.of]) ELSE updates
    BY <1>12 DEF ReadFirst
  <2>3. CASE ~Final(Line)
    <3>1. updates' = updates  BY <2>2, <2>3 DEF Final
    <3>2. QED  BY <1>4, <2>1, <2>3, <3>1
  <2>4. CASE Line.tag = "TO"
    <3>1. Final(Line) /\ ~written[Reading].helo  BY <2>1, <2>4, StateSays DEF Final
    <3>2. updates' = updates  BY <2>2, <2>4
    <3>3. UNCHANGED Calls  BY <3>2 DEF Calls, IsTuple
    <3>4. Feed!Take  BY <1>5, <2>1, <3>1, <3>3, TakeStep
    <3>5. QED  BY <3>4 DEF Feed!Next
  <2>5. CASE Line.tag = "TW"
    <3> DEFINE u == [tw |-> Reading]
    <3>1. Final(Line)  BY <2>5 DEF Final
    <3>2. /\ Reading \in 1 .. Len(written) /\ UNCHANGED written /\ Reading = Line.of
          /\ Taken' = Reading /\ written[Reading] \in Message
      BY <1>5, <2>1, <3>1
    <3>3. written[Reading].kind = "tw"  BY <2>1, <2>5, LineSays
    <3>4. written[Reading].helo = TRUE  BY <3>2, <3>3 DEF Message
    <3>5. updates' = Append(updates, u)  BY <2>2, <2>5, <3>2
    <3>6. u \in CallSet /\ ~IsTuple(u)  BY <3>2 DEF CallSet, IsTuple
    <3>7. CallOf(u) = [of |-> {Reading}]  BY <3>6 DEF CallOf
    <3>8. CallOf(u) \in Feed!Call(Reading)  BY <3>3, <3>7 DEF Feed!Call
    <3> HIDE DEF u
    <3>9. Calls' = Append(Calls, CallOf(u))  BY <3>5, <3>6, CallsAppend
    <3>10. \E c \in Feed!Call(Reading) : Calls' = Append(Calls, c)  BY <3>8, <3>9
    <3>11. Feed!Take  BY <3>2, <3>4, <3>10, TakeStep
    <3>12. QED  BY <3>11 DEF Feed!Next
  <2>6. QED  BY <2>3, <2>4, <2>5 DEF Final
<1>13. CASE ReadTo
  <2>1. Reads /\ ~Short /\ Line.tag # "SYNC" /\ state = 3  BY <1>13 DEF ReadTo, Takes
  <2>2. /\ Line.tag = "TO" /\ written[Reading].helo = TRUE
        /\ ~Between /\ sync = (written[Reading].kind = "tuple")
    <3>1. /\ Line.tag = "TO" /\ written[Reading].helo
          /\ ~Between /\ sync = (written[Reading].kind = "tuple")
      BY <2>1, StateSays
    <3>2. written[Reading].helo \in BOOLEAN  BY <2>1, LineSays DEF Message
    <3>3. QED  BY <3>1, <3>2
  <2>3. Final(Line)  BY <2>2 DEF Final
  <2>4. /\ Reading \in 1 .. Len(written) /\ UNCHANGED written /\ Reading = Line.of
        /\ Taken' = Reading /\ written[Reading] \in Message
    BY <1>5, <2>1, <2>3
  <2>5. updates' = Append(updates, Update)  BY <1>13, <2>2 DEF ReadTo
  <2>6. helo = Reading /\ ip = Reading /\ from = Reading  BY <2>1, <2>2 DEF ReaderInv
  <2>7. Update = [helo |-> Reading, ip |-> Reading, from |-> Reading, to |-> Reading,
                  sync |-> sync, cip |-> cip]
    BY <2>4, <2>6 DEF Update
  <2>8. Update \in CallSet
    <3>1. sync \in BOOLEAN /\ cip \in Target /\ Reading \in Nat  BY <2>4 DEF Types
    <3>2. QED  BY <2>7, <3>1 DEF CallSet
  <2>9. CallOf(Update) = [of |-> {Reading}, sync |-> sync, cip |-> cip]
    BY <2>7 DEF CallOf, IsTuple
  <2>10. cip \in Feed!LastTarget(Reading)
    <3>1. Remembers(Reading)  BY <2>2 DEF CipInv
    <3>2. ASSUME NEW n \in 0 .. Len(written), n = Reading PROVE cip \in Feed!LastTarget(n)
      BY <3>1, <3>2, RememberedTarget
    <3>3. Reading \in 0 .. Len(written)  BY <2>4
    <3>4. QED  BY <3>2, <3>3
  <2>11. CallOf(Update) \in Feed!Call(Reading)
    <3>1. written[Reading].kind # "tw"  BY <2>1, <2>2, LineSays
    <3>2. QED  BY <2>2, <2>9, <2>10, <3>1 DEF Feed!Call
  <2>12. Calls' = Append(Calls, CallOf(Update))  BY <2>5, <2>8, CallsAppend
  <2>13. \E c \in Feed!Call(Reading) : Calls' = Append(Calls, c)  BY <2>11, <2>12
  <2>14. Feed!Take  BY <2>2, <2>4, <2>13, TakeStep
  <2>15. QED  BY <2>14 DEF Feed!Next
<1>14. QED  BY <1>6, <1>7, <1>8, <1>9, <1>10, <1>11, <1>12, <1>13 DEF Next

(* THEOREM: the line protocol implements the feed of whole messages.       *)
THEOREM Implements == Spec => IsFeed
<1>1. ASSUME Init PROVE Feed!Init
  <2>1. written = <<>> /\ updates = <<>> /\ pipe = <<>>  BY <1>1 DEF Init
  <2>2. Inv  BY <1>1, InitInv
  <2>3. Reading = 1 /\ Taken = Reading - 1  BY <2>1, <2>2, TakenIsBefore DEF Reading
  <2>4. Taken = 0  BY <2>3
  <2>5. Len(Calls) = 0 /\ Calls \in Seq(CallRange)  BY <2>1, <2>2, CallsAre DEF Inv
  <2>6. Calls = <<>>  BY <2>5, EmptySeq
  <2>7. QED  BY <2>1, <2>4, <2>6 DEF Feed!Init, Taken
<1>2. Inv => Taken = Reading - 1  BY TakenIsBefore
<1>3. Inv /\ (Taken = Reading - 1) /\ (Taken = Reading - 1)' /\ [Next]_vars => [Feed!Next]_Feed!vars
  BY FeedStep
<1>4. QED  BY <1>1, <1>2, <1>3, Invariant, PTL DEF Spec, IsFeed, Feed!Spec
=============================================================================
