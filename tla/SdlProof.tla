------------------------------ MODULE SdlProof ------------------------------
(***************************************************************************)
(* Proofs about Sdl, for any number of lists, lines, slots and addresses,  *)
(* and any array.                                                          *)
(***************************************************************************)
EXTENDS Sdl, SequenceTheorems, TLAPS

ListLine == [tag : Lists, addrs : (SUBSET Ip) \ {{}}]

-----------------------------------------------------------------------------
(* The array of lists.  Each list is in it once, with the addresses of the *)
(* last line that was accepted for it, and is in it if there was one; an   *)
(* element without a name is there only after a failure.                   *)

Typed ==
  /\ blacklists \in Seq(Element)
  /\ last \in [Lists -> SUBSET Ip]
  /\ {failed, overrun, dead} \subseteq BOOLEAN
Named == \A i \in 1 .. blu : blacklists[i].tag # NULL => blacklists[i].addrs = last[blacklists[i].tag]
Once ==
  \A i, j \in 1 .. blu :
    blacklists[i].tag = blacklists[j].tag /\ blacklists[i].tag # NULL => i = j
Known == \A t \in Lists : last[t] # Absent <=> \E i \in 1 .. blu : blacklists[i].tag = t
Whole == ~failed => \A i \in 1 .. blu : blacklists[i].tag # NULL

ListInv == Typed /\ Named /\ Once /\ Known /\ Whole

(* LEMMA: the search of sdl_add finds the list, or there is none of that   *)
(* name and no element without a name either.                              *)
LEMMA Search ==
  ASSUME ListInv, NEW t \in Lists
  PROVE  /\ Found(t) => Index(t) \in 1 .. blu /\ blacklists[Index(t)].tag = t
         /\ Searchable(t) /\ ~Found(t) =>
              \A i \in 1 .. blu : blacklists[i].tag # t /\ blacklists[i].tag # NULL
<1>1. ASSUME Found(t) PROVE Index(t) \in 1 .. blu /\ blacklists[Index(t)].tag = t
  <2>1. PICK i \in Tagged(t) : \A j \in Tagged(NULL) \cup Tagged(t) : i <= j
    BY <1>1 DEF Found
  <2>2. Index(t) \in Tagged(t)
    BY <2>1 DEF Index
  <2>3. QED  BY <2>2 DEF Tagged
<1>2. ASSUME Searchable(t), ~Found(t)
      PROVE  \A i \in 1 .. blu : blacklists[i].tag # t /\ blacklists[i].tag # NULL
  <2>1. Tagged(NULL) = {}  BY <1>2 DEF Searchable
  <2>2. ASSUME NEW i \in 1 .. blu, blacklists[i].tag = t PROVE FALSE
    <3>1. t # NULL  BY NullAssumption
    <3>2. \A j \in Tagged(t) : j = i  BY <2>2, <3>1 DEF Tagged, ListInv, Once
    <3>3. i \in Tagged(t) /\ i <= i  BY <2>2 DEF Tagged, blu, ListInv, Typed
    <3>4. QED  BY <1>2, <2>1, <3>2, <3>3 DEF Found
  <2>3. QED  BY <2>1, <2>2 DEF Tagged
<1>3. QED  BY <1>1, <1>2

(* LEMMA: replacing a list, or failing to.                                 *)
LEMMA ReplaceKeeps ==
  ASSUME ListInv, NEW line \in ListLine, NEW out \in Outcome, Replace(line, out),
         dead' \in BOOLEAN
  PROVE  /\ ListInv'
         /\ blu' = blu
         /\ ~failed' => /\ ~failed
                        /\ \A i \in 1 .. blu : blacklists'[i].tag = blacklists[i].tag
<1> DEFINE k == Index(line.tag)
           e == IF out = "ok" THEN [tag |-> line.tag, addrs |-> line.addrs] ELSE Freed
<1>1. line.tag \in Lists /\ line.addrs \in SUBSET Ip /\ line.addrs # {}
  BY DEF ListLine
<1>2. k \in 1 .. blu /\ blacklists[k].tag = line.tag
  BY <1>1, Search DEF Replace
<1>3. e \in Element /\ (out = "ok" => e.tag = line.tag /\ e.addrs = line.addrs)
      /\ (out # "ok" => e.tag = NULL)
  BY <1>1 DEF Element, Freed
<1>4. blacklists' = [blacklists EXCEPT ![k] = e]
  BY DEF Replace
<1> HIDE DEF k, e
<1>5. blacklists \in Seq(Element) /\ blu = Len(blacklists)  BY DEF ListInv, Typed, blu
<1>6. /\ blacklists' \in Seq(Element) /\ Len(blacklists') = Len(blacklists)
      /\ \A j \in 1 .. blu : blacklists'[j] = IF j = k THEN e ELSE blacklists[j]
  BY <1>2, <1>3, <1>4, <1>5, ExceptSeq
<1>7. blu' = blu  BY <1>5, <1>6 DEF blu
<1>8. /\ last' = [last EXCEPT ![line.tag] = IF out = "ok" THEN line.addrs ELSE Absent]
      /\ failed' = (failed \/ out # "ok")
      /\ overrun' = overrun
  BY DEF Replace
<1>9. line.tag # NULL  BY <1>1, NullAssumption
<1>10. Typed'
  BY <1>1, <1>6, <1>8 DEF ListInv, Typed, Absent
<1>11. Named'
  <2> SUFFICES ASSUME NEW j \in 1 .. blu, blacklists'[j].tag # NULL
               PROVE  blacklists'[j].addrs = last'[blacklists'[j].tag]
    BY <1>7 DEF Named
  <2>1. CASE j = k
    BY <1>1, <1>3, <1>6, <1>8, <2>1 DEF ListInv, Typed
  <2>2. CASE j # k
    <3>1. blacklists[j].tag # line.tag
      BY <1>2, <1>6, <1>9, <2>2 DEF ListInv, Once
    <3>2. blacklists[j].tag \in Lists
      <4>1. blacklists[j] \in Element  BY <1>5, ElementOfSeq
      <4>2. blacklists[j].tag # NULL  BY <1>6, <2>2
      <4>3. QED  BY <4>1, <4>2 DEF Element
    <3>3. QED  BY <1>6, <1>8, <2>2, <3>1, <3>2 DEF ListInv, Typed, Named
  <2>3. QED  BY <2>1, <2>2
<1>12. Once'
  BY <1>2, <1>3, <1>6, <1>7 DEF ListInv, Once
<1>13. Known'
  <2> SUFFICES ASSUME NEW t \in Lists
               PROVE  last'[t] # Absent <=> \E i \in 1 .. blu : blacklists'[i].tag = t
    BY <1>7 DEF Known
  <2>1. CASE t = line.tag
    <3>1. last'[t] = IF out = "ok" THEN line.addrs ELSE Absent
      BY <1>8, <2>1 DEF ListInv, Typed
    <3>2. \A i \in 1 .. blu : i # k => blacklists'[i].tag # t
      BY <1>2, <1>6, <1>9, <2>1 DEF ListInv, Once
    <3>3. QED  BY <1>1, <1>2, <1>3, <1>6, <1>9, <2>1, <3>1, <3>2 DEF Absent
  <2>2. CASE t # line.tag
    <3>1. last'[t] = last[t]  BY <1>8, <2>2 DEF ListInv, Typed
    <3>2. t # NULL  BY NullAssumption
    <3>3. \A i \in 1 .. blu : blacklists'[i].tag = t <=> blacklists[i].tag = t
      BY <1>2, <1>3, <1>6, <2>2, <3>2
    <3>4. QED  BY <3>1, <3>3 DEF ListInv, Known
  <2>3. QED  BY <2>1, <2>2
<1>14. Whole'
  BY <1>3, <1>6, <1>7, <1>8, <1>9 DEF ListInv, Whole
<1>15. QED
  BY <1>2, <1>3, <1>6, <1>7, <1>8, <1>10, <1>11, <1>12, <1>13, <1>14 DEF ListInv

(* LEMMA: adding a list, or failing to.                                    *)
LEMMA AppendKeeps ==
  ASSUME ListInv, NEW line \in ListLine, NEW out \in Outcome, AppendList(line, out),
         dead' \in BOOLEAN, blc \in Nat
  PROVE  /\ ListInv'
         /\ blu' \in {blu, blu + 1}
         /\ \A i \in 1 .. blu : blacklists'[i] = blacklists[i]
<1>1. line.tag \in Lists /\ line.addrs \in SUBSET Ip /\ line.addrs # {}
  BY DEF ListLine
<1>2. blacklists \in Seq(Element) /\ blu = Len(blacklists) /\ blu \in Nat
  BY DEF ListInv, Typed, blu
<1>3. \A i \in 1 .. blu : blacklists[i].tag # line.tag /\ blacklists[i].tag # NULL
  BY <1>1, Search DEF AppendList
<1>4. overrun' \in BOOLEAN /\ failed' \in BOOLEAN /\ (failed => failed')
  BY DEF AppendList, ListInv, Typed
<1>5. CASE out = "ok"
  <2> DEFINE e == [tag |-> line.tag, addrs |-> line.addrs]
  <2>1. e \in Element /\ e.tag = line.tag /\ e.addrs = line.addrs
    BY <1>1 DEF Element
  <2>2. blacklists' = Append(blacklists, e) /\ last' = [last EXCEPT ![line.tag] = line.addrs]
    BY <1>5 DEF AppendList
  <2> HIDE DEF e
  <2>3. /\ blacklists' \in Seq(Element) /\ Len(blacklists') = blu + 1
        /\ \A i \in 1 .. blu : blacklists'[i] = blacklists[i]
        /\ blacklists'[blu + 1] = e
    BY <1>2, <2>1, <2>2
  <2>4. blu' = blu + 1 /\ 1 .. blu' = 1 .. blu \cup {blu + 1}
    BY <1>2, <2>3 DEF blu
  <2>5. Typed'
    BY <1>1, <1>4, <2>2, <2>3 DEF ListInv, Typed
  <2>6. \A t \in Lists : last'[t] = IF t = line.tag THEN line.addrs ELSE last[t]
    BY <2>2 DEF ListInv, Typed
  <2>7. \A i \in 1 .. blu : blacklists[i].tag \in Lists
    <3> SUFFICES ASSUME NEW i \in 1 .. blu PROVE blacklists[i].tag \in Lists  OBVIOUS
    <3>1. blacklists[i] \in Element  BY <1>2, ElementOfSeq
    <3>2. QED  BY <1>3, <3>1 DEF Element
  <2>8. Named'
    BY <1>1, <1>3, <2>1, <2>3, <2>4, <2>6, <2>7 DEF ListInv, Named
  <2>9. Once'
    BY <1>3, <2>1, <2>3, <2>4 DEF ListInv, Once
  <2>10. Known'
    BY <1>1, <1>3, <2>1, <2>3, <2>4, <2>6 DEF ListInv, Known, Absent
  <2>11. Whole'
    BY <1>1, <1>3, <2>1, <2>3, <2>4, NullAssumption DEF Whole
  <2>12. QED  BY <2>3, <2>4, <2>5, <2>8, <2>9, <2>10, <2>11 DEF ListInv
<1>6. CASE out # "ok"
  <2>1. UNCHANGED <<blacklists, last, overrun>>
    BY <1>6 DEF AppendList
  <2>2. ListInv'
    BY <1>3, <1>4, <2>1 DEF ListInv, Typed, Named, Once, Known, Whole, blu
  <2>3. QED  BY <2>1, <2>2 DEF blu
<1>7. QED  BY <1>5, <1>6

-----------------------------------------------------------------------------
(* The pointers that connections hold into the array.                      *)

Pointing ==
  /\ blc \in Nat /\ moved \in Nat
  /\ con \in [Slot -> [ip : Ip \cup {NULL}, to : SUBSET [array : Nat, idx : Nat, tag : Lists]]]
  /\ \A i \in Slot : \A p \in con[i].to : p.array <= moved /\ p.idx \in 1 .. blu

PointInv == Pointing /\ ReplyIsSafe

(* LEMMA: whatever sdl_add does with a line.                               *)
LEMMA SdlAddKeeps ==
  ASSUME ListInv, PointInv, NEW line \in ListLine, SdlAdd(line), UNCHANGED con
  PROVE  ListInv' /\ PointInv'
<1> USE BoundsAssumption
<1>1. ASSUME NEW out \in Outcome, Replace(line, out), UNCHANGED dead
      PROVE  ListInv' /\ PointInv'
  <2>1. dead' \in BOOLEAN  BY <1>1 DEF ListInv, Typed
  <2>2. /\ ListInv' /\ blu' = blu
        /\ ~failed' => ~failed /\ \A i \in 1 .. blu : blacklists'[i].tag = blacklists[i].tag
    BY <1>1, <2>1, ReplaceKeeps
  <2>3. UNCHANGED <<blc, moved, overrun>>  BY <1>1 DEF Replace
  <2>4. Pointing'  BY <2>2, <2>3 DEF PointInv, Pointing
  <2>5. ReplyIsSafe'
    BY <1>1, <2>2, <2>3 DEF PointInv, Pointing, ReplyIsSafe
  <2>6. QED  BY <2>2, <2>4, <2>5 DEF PointInv
<1>2. ASSUME NEW out \in Outcome, AppendList(line, out),
             dead' \in {FALSE, overrun' # overrun \/ (out = "nomem" /\ blu < blc)}
      PROVE  ListInv' /\ PointInv'
  <2>1. dead' \in BOOLEAN  BY <1>2
  <2>2. blc \in Nat  BY DEF PointInv, Pointing
  <2>3. /\ ListInv' /\ blu' \in {blu, blu + 1}
        /\ \A i \in 1 .. blu : blacklists'[i] = blacklists[i]
    BY <1>2, <2>1, <2>2, AppendKeeps
  <2>4. blc' \in Nat /\ moved' \in Nat /\ moved <= moved'
    BY <1>2 DEF AppendList, Grow, PointInv, Pointing
  <2>5. blu \in Nat  BY DEF blu, ListInv, Typed
  <2>6. Pointing'
    <3>1. \A k \in 1 .. blu : k \in 1 .. blu'  BY <2>3, <2>5
    <3>2. \A i \in Slot : \A p \in con[i].to : p.array \in Nat
      BY DEF PointInv, Pointing
    <3>3. \A i \in Slot : \A p \in con[i].to : p.array <= moved'
      BY <2>4, <3>2 DEF PointInv, Pointing
    <3>4. QED  BY <2>4, <3>1, <3>3 DEF PointInv, Pointing
  <2>7. ReplyIsSafe'
    <3>1. SUFFICES ASSUME ~failed', moved' = 0, ~overrun' PROVE ReplyIsSafe'
      BY DEF ReplyIsSafe
    <3>2. ~failed /\ ~(out = "nomem" /\ blu < blc) /\ ~overrun
      <4>1. failed' = (failed \/ (out = "nomem" /\ blu < blc))
        BY <1>2 DEF AppendList
      <4>2. overrun => overrun'
        BY <1>2 DEF AppendList, ListInv, Typed
      <4>3. QED  BY <3>1, <4>1, <4>2
    <3>3. moved = 0  BY <2>4, <3>1 DEF PointInv, Pointing
    <3>4. ~dead'
      <4>1. overrun \in BOOLEAN /\ overrun' \in BOOLEAN
        BY <2>3 DEF ListInv, Typed
      <4>2. overrun' = overrun  BY <3>1, <3>2, <4>1
      <4>3. dead' = FALSE \/ (dead' <=> (overrun' # overrun \/ (out = "nomem" /\ blu < blc)))
        BY <1>2
      <4>4. QED  BY <3>2, <4>2, <4>3
    <3>5. \A i \in Slot : \A p \in con[i].to : blacklists[p.idx].tag = p.tag
      BY <3>2, <3>3 DEF PointInv, ReplyIsSafe
    <3>6. \A i \in Slot : \A p \in con[i].to : blacklists'[p.idx].tag = p.tag
      BY <2>3, <3>5 DEF PointInv, Pointing
    <3>7. QED  BY <3>4, <3>6 DEF ReplyIsSafe
  <2>8. QED  BY <2>3, <2>6, <2>7 DEF PointInv
<1>3. CASE AddCrashes(line)
  <2>1. dead' = TRUE /\ UNCHANGED <<blacklists, blc, moved, last, failed, overrun>>
    BY <1>3 DEF AddCrashes, listvars
  <2>2. failed
    <3>1. ~Searchable(line.tag)  BY <1>3 DEF AddCrashes
    <3>2. Tagged(NULL) # {}  BY <3>1 DEF Searchable
    <3>3. QED  BY <3>2 DEF Tagged, ListInv, Whole
  <2>3. ListInv'
    BY <2>1 DEF ListInv, Typed, Named, Once, Known, Whole, blu
  <2>4. PointInv'
    BY <2>1, <2>2 DEF PointInv, Pointing, ReplyIsSafe, blu
  <2>5. QED  BY <2>3, <2>4
<1>4. QED  BY <1>1, <1>2, <1>3 DEF SdlAdd

(* LEMMA: what the lists and the pointers do not depend on may change.     *)
LEMMA StutterKeeps ==
  ASSUME ListInv, PointInv, UNCHANGED <<blacklists, blc, moved, last, failed, overrun, dead, con>>
  PROVE  ListInv' /\ PointInv'
<1>1. blu' = blu  BY DEF blu
<1>2. ListInv'  BY <1>1 DEF ListInv, Typed, Named, Once, Known, Whole
<1>3. PointInv'  BY <1>1 DEF PointInv, Pointing, ReplyIsSafe
<1>4. QED  BY <1>2, <1>3

-----------------------------------------------------------------------------
(* The buffer of the configuration connection: what has been read and what *)
(* is yet to come are the halves of one line, in order.                    *)

HalfOf(line, k) == [line |-> line, part |-> <<"head", "tail">>[k], of |-> conf.of]
Session(line) ==
  /\ Len(cb) + Len(conf.todo) <= 2
  /\ \A k \in 1 .. Len(cb) : cb[k] = HalfOf(line, k)
  /\ \A k \in 1 .. Len(conf.todo) : conf.todo[k] = HalfOf(line, Len(cb) + k)
AnyHalf == [line : ListLine, part : {"head", "tail"}, of : Nat]

SessionInv ==
  /\ cb \in Seq(AnyHalf) /\ lines \in Nat
  /\ conf = NoConn => cb = <<>>
  /\ conf # NoConn => /\ conf \in [of : Nat \ {0}, todo : Seq(AnyHalf)]
                      /\ \E line \in ListLine : Session(line)

(* LEMMA: OneSession is what a reader of do_config would say of it.        *)
LEMMA SessionIsOne == SessionInv => OneSession
<1> SUFFICES ASSUME SessionInv PROVE OneSession  OBVIOUS
<1>1. CASE conf = NoConn
  <2>1. cb = <<>> /\ Len(cb) = 0  BY <1>1 DEF SessionInv
  <2>2. QED  BY <2>1 DEF OneSession
<1>2. CASE conf # NoConn
  <2>1. PICK line \in ListLine : Session(line)  BY <1>2 DEF SessionInv
  <2>2. \A k : HalfOf(line, k).of = conf.of /\ HalfOf(line, k).part = <<"head", "tail">>[k]
    BY DEF HalfOf
  <2>3. \A k \in 1 .. Len(cb) : cb[k] = HalfOf(line, k)  BY <2>1 DEF Session
  <2> HIDE DEF HalfOf
  <2>4. \A k \in 1 .. Len(cb) : cb[k].of = conf.of /\ cb[k].part = <<"head", "tail">>[k]
    BY <2>2, <2>3, Zenon
  <2>5. QED  BY <1>2, <2>4, Zenon DEF OneSession
<1>3. QED  BY <1>1, <1>2

(* LEMMA: the peer connects.                                               *)
LEMMA ConnectKeeps ==
  ASSUME SessionInv, NEW line \in ListLine, Connect(line)
  PROVE  SessionInv'
<1> DEFINE half(part) == [line |-> line, part |-> part, of |-> lines']
           h1 == half("head")
           h2 == half("tail")
<1>1. lines' = lines + 1 /\ lines' \in Nat \ {0} /\ cb' = cb /\ cb = <<>>
  BY DEF Connect, SessionInv
<1>2. conf' \in [of : {lines'}, todo : {<<>>, <<h1>>, <<h1, h2>>}]
  BY DEF Connect
<1>3. h1 \in AnyHalf /\ h2 \in AnyHalf
  BY <1>1 DEF AnyHalf
<1> DEFINE todos == {<<>>, <<h1>>, <<h1, h2>>}
<1>4. conf' = [of |-> conf'.of, todo |-> conf'.todo] /\ conf'.of = lines' /\ conf'.todo \in todos
  <2>1. conf' \in [of : {lines'}, todo : todos]  BY <1>2
  <2> HIDE DEF todos
  <2>2. QED  BY <2>1
<1>5. h1 = HalfOf(line, 1)' /\ h2 = HalfOf(line, 2)'
  BY <1>4 DEF HalfOf
<1> HIDE DEF half, h1, h2
<1>6. conf'.todo \in Seq(AnyHalf)
  <2>1. <<>> \in Seq(AnyHalf) /\ <<h1>> \in Seq(AnyHalf) /\ <<h1, h2>> \in Seq(AnyHalf)
    BY <1>3
  <2>2. QED  BY <1>4, <2>1
<1>7. Session(line)'
  <2>1. Len(cb') = 0  BY <1>1
  <2>2. /\ Len(conf'.todo) \in 0 .. 2
        /\ \A k \in 1 .. Len(conf'.todo) : conf'.todo[k] = HalfOf(line, k)'
    <3>1. CASE conf'.todo = <<>>  BY <3>1
    <3>2. CASE conf'.todo = <<h1>>
      <4>1. Len(conf'.todo) = 1 /\ conf'.todo[1] = h1  BY <3>2
      <4>2. QED  BY <1>5, <4>1
    <3>3. CASE conf'.todo = <<h1, h2>>
      <4>1. Len(conf'.todo) = 2 /\ conf'.todo[1] = h1 /\ conf'.todo[2] = h2
        BY <3>3
      <4>2. \A k \in 1 .. 2 : k = 1 \/ k = 2  OBVIOUS
      <4>3. QED  BY <1>5, <4>1, <4>2
    <3>4. QED  BY <1>4, <3>1, <3>2, <3>3
  <2>3. QED  BY <1>1, <2>1, <2>2 DEF Session
<1>8. conf' # NoConn
  <2>1. conf'.of # 0  BY <1>1, <1>4
  <2>2. QED  BY <2>1 DEF NoConn
<1>9. conf' \in [of : Nat \ {0}, todo : Seq(AnyHalf)]
  BY <1>1, <1>4, <1>6
<1>10. QED  BY <1>1, <1>7, <1>8, <1>9 DEF SessionInv

(* LEMMA: one read of do_config.                                           *)
LEMMA ReadConfKeeps ==
  ASSUME SessionInv, ReadConf
  PROVE  SessionInv'
<1>1. conf # NoConn /\ conf \in [of : Nat \ {0}, todo : Seq(AnyHalf)] /\ cb \in Seq(AnyHalf)
  BY DEF SessionInv, ReadConf
<1>2. PICK line \in ListLine : Session(line)
  BY <1>1 DEF SessionInv
<1>3. PICK n \in 1 .. Len(conf.todo) :
        /\ cb' = cb \o SubSeq(conf.todo, 1, n)
        /\ conf' = [conf EXCEPT !.todo = SubSeq(conf.todo, n + 1, Len(conf.todo))]
  BY DEF ReadConf
<1> DEFINE todo == conf.todo  got == SubSeq(todo, 1, n)  rest == SubSeq(todo, n + 1, Len(todo))
<1>4. todo \in Seq(AnyHalf) /\ Len(todo) \in Nat /\ n \in Nat /\ n <= Len(todo) /\ 1 <= n
      /\ \A i \in 1 .. Len(todo) : todo[i] \in AnyHalf
      /\ Len(cb) \in Nat
  BY <1>1, <1>3, ElementOfSeq
<1>5. /\ got \in Seq(AnyHalf) /\ Len(got) = n
      /\ \A i \in 1 .. n : got[i] = todo[i]
  <2>1. \A i \in 1 .. n : todo[i] \in AnyHalf  BY <1>4
  <2>2. 1 \in Int /\ n \in Int  BY <1>4
  <2>3. /\ got \in Seq(AnyHalf)
        /\ Len(got) = IF 1 <= n THEN n - 1 + 1 ELSE 0
        /\ \A i \in 1 .. n - 1 + 1 : got[i] = todo[1 + i - 1]
    BY <2>1, <2>2, SubSeqProperties
  <2>4. QED  BY <1>4, <2>3
<1>6. /\ rest \in Seq(AnyHalf) /\ Len(rest) = Len(todo) - n
      /\ \A i \in 1 .. Len(todo) - n : rest[i] = todo[n + i]
  <2>1. \A i \in n + 1 .. Len(todo) : todo[i] \in AnyHalf  BY <1>4
  <2>2. n + 1 \in Int /\ Len(todo) \in Int  BY <1>4
  <2>3. /\ rest \in Seq(AnyHalf)
        /\ Len(rest) = IF n + 1 <= Len(todo) THEN Len(todo) - (n + 1) + 1 ELSE 0
        /\ \A i \in 1 .. Len(todo) - (n + 1) + 1 : rest[i] = todo[n + 1 + i - 1]
    BY <2>1, <2>2, SubSeqProperties
  <2>4. QED  BY <1>4, <2>3
<1>7. conf'.todo = rest /\ conf'.of = conf.of /\ conf' \in [of : Nat \ {0}, todo : Seq(AnyHalf)]
  BY <1>1, <1>3, <1>6
<1>8. cb' = cb \o got  BY <1>3
<1> HIDE DEF todo, got, rest
<1>9. /\ cb' \in Seq(AnyHalf) /\ Len(cb') = Len(cb) + n
      /\ \A i \in 1 .. Len(cb) + n : cb'[i] = IF i <= Len(cb) THEN cb[i] ELSE got[i - Len(cb)]
  BY <1>1, <1>5, <1>8, ConcatProperties
<1>10. /\ Len(cb) + Len(todo) <= 2
       /\ \A k \in 1 .. Len(cb) : cb[k] = HalfOf(line, k)
       /\ \A k \in 1 .. Len(todo) : todo[k] = HalfOf(line, Len(cb) + k)
  BY <1>2 DEF Session, todo
<1>11. \A k : HalfOf(line, k)' = HalfOf(line, k)
  BY <1>7 DEF HalfOf
<1>12. \A k \in 1 .. Len(cb) + n : cb'[k] = HalfOf(line, k)
  <2> SUFFICES ASSUME NEW k \in 1 .. Len(cb) + n PROVE cb'[k] = HalfOf(line, k)  OBVIOUS
  <2>1. CASE k <= Len(cb)  BY <1>4, <1>9, <1>10, <2>1
  <2>2. CASE k > Len(cb)
    <3>1. k - Len(cb) \in 1 .. n /\ k - Len(cb) \in 1 .. Len(todo) /\ Len(cb) + (k - Len(cb)) = k
      BY <1>4, <2>2
    <3>2. cb'[k] = todo[k - Len(cb)]  BY <1>4, <1>5, <1>9, <2>2, <3>1
    <3>3. QED  BY <1>10, <3>1, <3>2
  <2>3. QED  BY <1>4, <2>1, <2>2
<1>13. \A k \in 1 .. Len(todo) - n : rest[k] = HalfOf(line, Len(cb) + n + k)
  <2> SUFFICES ASSUME NEW k \in 1 .. Len(todo) - n PROVE rest[k] = HalfOf(line, Len(cb) + n + k)
    OBVIOUS
  <2>1. n + k \in 1 .. Len(todo) /\ Len(cb) + (n + k) = Len(cb) + n + k  BY <1>4
  <2>2. rest[k] = todo[n + k]  BY <1>6
  <2>3. QED  BY <1>10, <2>1, <2>2
<1>14. Session(line)'
  BY <1>4, <1>6, <1>7, <1>9, <1>10, <1>11, <1>12, <1>13 DEF Session
<1>15. conf' # NoConn
  <2>1. conf'.of # 0  BY <1>7
  <2>2. QED  BY <2>1 DEF NoConn
<1>16. lines' = lines  BY DEF ReadConf
<1>17. QED  BY <1>7, <1>9, <1>14, <1>15, <1>16 DEF SessionInv

(* LEMMA: whatever do_config makes of a line that was collected, it is a   *)
(* line that sdl_add can be given.                                         *)
LEMMA Parsed ==
  ASSUME SessionInv, cb # <<>>, ParseLine
  PROVE  Ignored \/ \E line \in ListLine : SdlAdd(line)
<1> DEFINE cut(addrs) == [cb[1].line EXCEPT !.addrs = addrs]
<1>1. \A k \in 1 .. Len(cb) : cb[k].line \in ListLine
  <2> SUFFICES ASSUME NEW k \in 1 .. Len(cb) PROVE cb[k].line \in ListLine  OBVIOUS
  <2>1. cb[k] \in AnyHalf
    <3>1. cb \in Seq(AnyHalf)  BY DEF SessionInv
    <3>2. QED  BY <3>1, ElementOfSeq
  <2>2. QED  BY <2>1 DEF AnyHalf
<1>2. 1 \in 1 .. Len(cb)
  <2>1. cb \in Seq(AnyHalf)  BY DEF SessionInv
  <2>2. Len(cb) \in Nat /\ Len(cb) # 0  BY <2>1, EmptySeq
  <2>3. QED  BY <2>2
<1>3. \A addrs \in (SUBSET Ip) \ {{}} : cut(addrs) \in ListLine
  <2>1. cb[1].line \in ListLine  BY <1>1, <1>2
  <2>2. QED  BY <2>1 DEF ListLine
<1>4. ASSUME Len(cb) = 2 PROVE cb[2].line.addrs \in (SUBSET Ip) \ {{}}
  <2>1. cb[2].line \in ListLine  BY <1>1, <1>4
  <2>2. QED  BY <2>1 DEF ListLine
<1>5. \/ Ignored
      \/ Len(cb) = 2 /\ SdlAdd(cut(cb[2].line.addrs))
      \/ \E addrs \in (SUBSET Ip) \ {{}} : SdlAdd(cut(addrs))
  BY DEF ParseLine
<1> HIDE DEF cut
<1>6. QED  BY <1>3, <1>4, <1>5

(* LEMMA: the lists and the pointers after it.                             *)
LEMMA ParseKeeps ==
  ASSUME ListInv, PointInv, SessionInv, cb # <<>>, ParseLine, UNCHANGED con
  PROVE  ListInv' /\ PointInv'
<1>1. CASE Ignored
  BY <1>1, StutterKeeps DEF Ignored, listvars
<1>2. CASE \E line \in ListLine : SdlAdd(line)
  BY <1>2, SdlAddKeeps
<1>3. QED  BY <1>1, <1>2, Parsed

-----------------------------------------------------------------------------
(* The pointers of the jail's connections.                                 *)

(* LEMMA: initcon points at the lists as they are.                         *)
LEMMA InitConKeeps ==
  ASSUME ListInv, PointInv, NEW i \in Slot, NEW ip \in Ip, InitCon(i, ip)
  PROVE  ListInv' /\ PointInv'
<1> DEFINE hits == {k \in Visible : ip \in blacklists[k].addrs}
<1>0. PICK found \in Lookup(ip) : con' = [con EXCEPT ![i] = [ip |-> ip, to |-> found]]
  BY DEF InitCon
<1>1. UNCHANGED listvars /\ UNCHANGED dead
      /\ con' = [con EXCEPT ![i] = [ip |-> ip, to |-> found]]
  BY <1>0 DEF InitCon
<1>2. ListInv'
  BY <1>1 DEF listvars, ListInv, Typed, Named, Once, Known, Whole, blu
<1>3. \A k \in hits : k \in 1 .. blu /\ k \in Nat /\ blacklists[k].tag \in Lists
  <2> SUFFICES ASSUME NEW k \in hits
               PROVE  k \in 1 .. blu /\ k \in Nat /\ blacklists[k].tag \in Lists
    OBVIOUS
  <2>1. blacklists \in Seq(Element) /\ blu \in Nat /\ blu = Len(blacklists)
    BY DEF blu, ListInv, Typed
  <2>2. k \in 1 .. blu /\ \A j \in 1 .. k : blacklists[j].tag # NULL
    BY DEF Visible
  <2>3. k \in Nat /\ k \in 1 .. k  BY <2>1, <2>2
  <2>4. blacklists[k] \in Element  BY <2>1, <2>2, ElementOfSeq
  <2>5. QED  BY <2>2, <2>3, <2>4 DEF Element
<1>4. moved \in Nat  BY DEF PointInv, Pointing
<1>5. \A p \in found : /\ p \in [array : Nat, idx : Nat, tag : Lists]
                       /\ p.array = moved /\ p.idx \in 1 .. blu
                       /\ blacklists[p.idx].tag = p.tag
  BY <1>3, <1>4 DEF Lookup
<1> HIDE DEF hits
<1>6. \A j \in Slot : con'[j].to = IF j = i THEN found ELSE con[j].to
  BY <1>1 DEF PointInv, Pointing
<1>7. Pointing'
  <2>1. con' \in [Slot -> [ip : Ip \cup {NULL}, to : SUBSET [array : Nat, idx : Nat, tag : Lists]]]
    BY <1>1, <1>5 DEF PointInv, Pointing
  <2>2. blu' = blu /\ UNCHANGED <<blc, moved>>  BY <1>1 DEF listvars, blu
  <2>3. ASSUME NEW j \in Slot, NEW p \in con'[j].to
        PROVE  p.array <= moved /\ p.idx \in 1 .. blu
    BY <1>4, <1>5, <1>6, <2>3 DEF PointInv, Pointing
  <2>4. QED  BY <1>4, <2>1, <2>2, <2>3 DEF PointInv, Pointing
<1>8. ReplyIsSafe'
  BY <1>1, <1>5, <1>6 DEF PointInv, ReplyIsSafe, listvars
<1>9. QED  BY <1>2, <1>7, <1>8 DEF PointInv

(* LEMMA: a reply is built, or the client goes.                            *)
LEMMA LeaveKeeps ==
  ASSUME ListInv, PointInv, NEW i \in Slot, BuildReply(i) \/ CloseCon(i)
  PROVE  ListInv' /\ PointInv'
<1>1. UNCHANGED listvars /\ con' = [con EXCEPT ![i] = Closed] /\ dead' \in BOOLEAN
  <2>1. dead \in BOOLEAN  BY DEF ListInv, Typed
  <2>2. QED  BY <2>1 DEF BuildReply, CloseCon
<1>2. ListInv'
  BY <1>1 DEF listvars, ListInv, Typed, Named, Once, Known, Whole, blu
<1>3. \A j \in Slot : con'[j].to = IF j = i THEN {} ELSE con[j].to
  BY <1>1 DEF PointInv, Pointing, Closed
<1>4. Pointing'
  <2>1. con' \in [Slot -> [ip : Ip \cup {NULL}, to : SUBSET [array : Nat, idx : Nat, tag : Lists]]]
    BY <1>1 DEF PointInv, Pointing, Closed
  <2>2. blu' = blu /\ UNCHANGED <<blc, moved>>  BY <1>1 DEF listvars, blu
  <2>3. QED  BY <1>3, <2>1, <2>2 DEF PointInv, Pointing
<1>5. ReplyIsSafe'
  <2> SUFFICES ASSUME ~failed, moved = 0, ~overrun
               PROVE  ~dead' /\ \A j \in Slot : \A p \in con'[j].to : blacklists[p.idx].tag = p.tag
    BY <1>1 DEF listvars, ReplyIsSafe
  <2>1. ~dead /\ \A j \in Slot : \A p \in con[j].to : blacklists[p.idx].tag = p.tag
    BY DEF PointInv, ReplyIsSafe
  <2>2. \A p \in con[i].to : ~Null(p) /\ ~Dangling(p)
    <3> SUFFICES ASSUME NEW p \in con[i].to PROVE ~Null(p) /\ ~Dangling(p)  OBVIOUS
    <3>1. p.array \in Nat /\ p.array <= moved /\ p.tag \in Lists
      BY DEF PointInv, Pointing
    <3>2. p.array = moved  BY <3>1
    <3>3. blacklists[p.idx].tag # NULL  BY <2>1, <3>1, NullAssumption
    <3>4. QED  BY <3>2, <3>3 DEF Null, Dangling
  <2>3. ~dead'
    <3>1. CASE CloseCon(i)  BY <2>1, <3>1 DEF CloseCon
    <3>2. CASE BuildReply(i)  BY <2>2, <3>2 DEF BuildReply
    <3>3. QED  BY <3>1, <3>2
  <2>4. QED  BY <1>3, <2>1, <2>3
<1>6. QED  BY <1>2, <1>4, <1>5 DEF PointInv

-----------------------------------------------------------------------------
(* Every step of the jail keeps all three parts.                           *)

Inv == ListInv /\ PointInv /\ SessionInv

(* LEMMA: they hold initially.                                             *)
LEMMA InitInv == Init => Inv
<1> SUFFICES ASSUME Init PROVE Inv  OBVIOUS
<1> USE DEF Init
<1>1. blu = 0 /\ 1 .. blu = {}  BY DEF blu
<1>2. ListInv
  <2>1. Typed
    <3>1. blacklists = <<>> /\ last = [t \in Lists |-> {}] /\ ~failed /\ ~overrun /\ ~dead
      BY DEF Absent
    <3>2. blacklists \in Seq(Element)  BY <3>1
    <3>3. last \in [Lists -> SUBSET Ip]  BY <3>1
    <3>4. {failed, overrun, dead} \subseteq BOOLEAN  OBVIOUS
    <3>5. QED  BY <3>2, <3>3, <3>4 DEF Typed
  <2>2. Named /\ Once /\ Whole  BY <1>1 DEF Named, Once, Whole
  <2>3. Known  BY <1>1 DEF Known, Absent
  <2>4. QED  BY <2>1, <2>2, <2>3 DEF ListInv
<1>3. \A i \in Slot : con[i].to = {}  BY DEF Closed
<1>4. Pointing
  <2>1. con \in [Slot -> [ip : Ip \cup {NULL}, to : SUBSET [array : Nat, idx : Nat, tag : Lists]]]
    BY DEF Closed
  <2>2. QED  BY <1>3, <2>1 DEF Pointing
<1>5. ReplyIsSafe  BY <1>3 DEF ReplyIsSafe
<1>6. SessionInv
  <2>1. conf = NoConn /\ cb = <<>> /\ lines = 0  OBVIOUS
  <2>2. cb \in Seq(AnyHalf)  BY <2>1
  <2>3. QED  BY <2>1, <2>2 DEF SessionInv
<1>7. QED  BY <1>2, <1>4, <1>5, <1>6 DEF Inv, PointInv

(* LEMMA: every step keeps them.                                           *)
LEMMA StepInv == Inv /\ [Next]_vars => Inv'
<1> SUFFICES ASSUME ListInv, PointInv, SessionInv, [Next]_vars PROVE Inv'
  BY DEF Inv
<1>1. ASSUME UNCHANGED <<listvars, dead, con>> PROVE ListInv' /\ PointInv'
  BY <1>1, StutterKeeps DEF listvars
<1>2. ASSUME UNCHANGED <<conf, cb>>, lines' \in Nat PROVE SessionInv'
  BY <1>2 DEF SessionInv, Session, HalfOf
<1>3. lines \in Nat  BY DEF SessionInv
<1>4. ASSUME conf' = NoConn, cb' = <<>>, lines' = lines PROVE SessionInv'
  BY <1>3, <1>4 DEF SessionInv
<1>5. ASSUME NEW line \in [tag : Tag, addrs : (SUBSET Ip) \ {{}}], Connect(line) PROVE Inv'
  <2>1. line \in ListLine  BY DEF ListLine, Lists
  <2>2. UNCHANGED <<listvars, dead, con>>  BY <1>5 DEF Connect
  <2>3. QED  BY <1>1, <1>5, <2>1, <2>2, ConnectKeeps DEF Inv
<1>6. CASE ReadConf
  <2>1. UNCHANGED <<listvars, dead, con>>  BY <1>6 DEF ReadConf
  <2>2. QED  BY <1>1, <1>6, <2>1, ReadConfKeeps DEF Inv
<1>7. CASE ReadError
  BY <1>1, <1>4, <1>7 DEF ReadError, Inv
<1>8. CASE ReadEof
  <2>1. conf' = NoConn /\ cb' = <<>> /\ UNCHANGED <<con, lines>>
        /\ IF cb = <<>> THEN Ignored ELSE ParseLine
    BY <1>8 DEF ReadEof
  <2>2. SessionInv'  BY <1>4, <2>1
  <2>3. CASE cb = <<>>  BY <1>1, <2>1, <2>2, <2>3 DEF Ignored, Inv
  <2>4. CASE cb # <<>>
    <3>1. ListInv' /\ PointInv'  BY <2>1, <2>4, ParseKeeps
    <3>2. QED  BY <2>2, <3>1 DEF Inv
  <2>5. QED  BY <2>3, <2>4
<1>9. ASSUME NEW addrs \in (SUBSET Ip) \ {{}}, ReadTrapLine(addrs) PROVE Inv'
  <2> DEFINE line == [tag |-> Greytrap, addrs |-> addrs]
  <2>1. line \in ListLine  BY DEF ListLine, Lists
  <2>2. SdlAdd(line) \/ Ignored  BY <1>9 DEF ReadTrapLine
  <2> HIDE DEF line
  <2>3. UNCHANGED <<conf, cb, con>> /\ lines' = lines + 1  BY <1>9 DEF ReadTrapLine
  <2>4. SessionInv'  BY <1>2, <1>3, <2>3
  <2>5. CASE Ignored  BY <1>1, <2>3, <2>4, <2>5 DEF Ignored, Inv
  <2>6. CASE SdlAdd(line)
    <3>1. ListInv' /\ PointInv'  BY <2>1, <2>3, <2>6, SdlAddKeeps
    <3>2. QED  BY <2>4, <3>1 DEF Inv
  <2>7. QED  BY <2>2, <2>5, <2>6
<1>10. ASSUME NEW i \in Slot, NEW ip \in Ip, InitCon(i, ip) PROVE Inv'
  <2>1. UNCHANGED <<conf, cb, lines>>  BY <1>10 DEF InitCon
  <2>2. QED  BY <1>2, <1>3, <1>10, <2>1, InitConKeeps DEF Inv
<1>11. ASSUME NEW i \in Slot, BuildReply(i) \/ CloseCon(i) PROVE Inv'
  <2>1. UNCHANGED <<conf, cb, lines>>  BY <1>11 DEF BuildReply, CloseCon
  <2>2. QED  BY <1>2, <1>3, <1>11, <2>1, LeaveKeeps DEF Inv
<1>12. CASE UNCHANGED vars
  BY <1>1, <1>2, <1>3, <1>12 DEF vars, listvars, Inv
<1>13. QED
  BY <1>5, <1>6, <1>7, <1>8, <1>9, <1>10, <1>11, <1>12 DEF Next

(* LEMMA: the invariant of the specification.                              *)
LEMMA Invariant == Spec => []Inv
<1>1. QED  BY InitInv, StepInv, PTL DEF Spec

-----------------------------------------------------------------------------
(* THEOREM: a lookup that has memory finds exactly the lists in sight      *)
(* whose last accepted line has the address, each once; only a list whose  *)
(* replacement failed leaves the array, and only those behind it are       *)
(* missed (sdl_add, sdl_lookup).                                           *)
THEOREM ListsInForce == Spec => []InForce
<1>1. Inv => InForce
  <2> SUFFICES ASSUME ListInv PROVE InForce  BY DEF Inv
  <2>1. \A i \in Visible : i \in 1 .. blu /\ blacklists[i].tag # NULL
    <3> SUFFICES ASSUME NEW i \in Visible PROVE i \in 1 .. blu /\ blacklists[i].tag # NULL
      OBVIOUS
    <3>1. i \in 1 .. blu /\ blu \in Nat  BY DEF Visible, blu, ListInv, Typed
    <3>2. i \in 1 .. i  BY <3>1
    <3>3. QED  BY <3>1, <3>2 DEF Visible
  <2>2. \A i \in Visible : blacklists[i].addrs = last[blacklists[i].tag]
    BY <2>1 DEF ListInv, Named
  <2>3. \A i, j \in Visible : blacklists[i].tag = blacklists[j].tag => i = j
    BY <2>1 DEF ListInv, Once
  <2>4. {blacklists[i].tag : i \in 1 .. blu} \ {NULL} = {t \in Lists : last[t] # Absent}
    <3>1. \A i \in 1 .. blu : blacklists[i].tag \in Lists \cup {NULL}
      <4> SUFFICES ASSUME NEW i \in 1 .. blu PROVE blacklists[i].tag \in Lists \cup {NULL}
        OBVIOUS
      <4>1. blacklists \in Seq(Element) /\ blu = Len(blacklists)
        BY DEF blu, ListInv, Typed
      <4>2. blacklists[i] \in Element  BY <4>1, ElementOfSeq
      <4>3. QED  BY <4>2 DEF Element
    <3>2. \A t \in Lists : last[t] # Absent <=> \E i \in 1 .. blu : blacklists[i].tag = t
      BY DEF ListInv, Known
    <3>3. QED  BY <3>1, <3>2, NullAssumption
  <2>5. ~failed => Visible = 1 .. blu
    <3>1. blu \in Nat  BY DEF blu, ListInv, Typed
    <3>2. \A i \in 1 .. blu : \A j \in 1 .. i : j \in 1 .. blu  BY <3>1
    <3>3. QED  BY <3>2 DEF Visible, ListInv, Whole
  <2>6. QED  BY <2>2, <2>3, <2>4, <2>5 DEF InForce
<1>2. QED  BY <1>1, Invariant, PTL

(* THEOREM: as long as no replacement failed and the array neither moved   *)
(* nor overran, the jail reads only strings that are there, and answers    *)
(* a client with the lists it was found on (initcon, build_reply).         *)
THEOREM RepliesAreSafe == Spec => []ReplyIsSafe
<1>1. Inv => ReplyIsSafe  BY DEF Inv, PointInv
<1>2. QED  BY <1>1, Invariant, PTL

(* THEOREM: the buffer of do_config never mixes two connections.           *)
THEOREM SessionsApart == Spec => []OneSession
<1>1. Inv => OneSession  BY SessionIsOne DEF Inv
<1>2. QED  BY <1>1, Invariant, PTL

-----------------------------------------------------------------------------
(* How far lines can take the array.  A line is used up when sdl_add has   *)
(* had it, or never will; the one of the open connection is not yet.       *)

Used == IF conf = NoConn THEN lines ELSE lines - 1
Sized(n) ==
  /\ \E k \in 0 .. n : blc = Chunk * k
  /\ blu <= blc /\ blu <= n /\ moved <= n
Bounds ==
  /\ lines <= MaxLines
  /\ conf # NoConn => conf.of <= lines
  /\ Sized(Used)

(* LEMMA: a line makes one element, one growth and one move at most.       *)
LEMMA AddSizes ==
  ASSUME ListInv, PointInv, NEW n \in Nat, Sized(n),
         NEW line \in ListLine, SdlAdd(line)
  PROVE  Sized(n + 1)'
<1>1. /\ blacklists \in Seq(Element) /\ blu = Len(blacklists) /\ blu \in Nat
      /\ blc \in Nat /\ moved \in Nat /\ Chunk \in Nat \ {0}
  BY BoundsAssumption DEF ListInv, Typed, PointInv, Pointing, blu
<1>2. PICK k \in 0 .. n : blc = Chunk * k  BY DEF Sized
<1>3. k \in 0 .. n + 1 /\ k + 1 \in 0 .. n + 1 /\ Chunk * (k + 1) = blc + Chunk
  BY <1>1, <1>2
<1>4. blu <= blc /\ blu <= n /\ moved <= n  BY DEF Sized
<1>5. ASSUME UNCHANGED <<blc, moved>>, blu' = blu PROVE Sized(n + 1)'
  BY <1>1, <1>2, <1>3, <1>4, <1>5 DEF Sized
<1>6. ASSUME NEW out \in Outcome, Replace(line, out) PROVE Sized(n + 1)'
  <2> DEFINE e == IF out = "ok" THEN [tag |-> line.tag, addrs |-> line.addrs] ELSE Freed
  <2>1. blacklists' = [blacklists EXCEPT ![Index(line.tag)] = e] /\ UNCHANGED <<blc, moved>>
    BY <1>6 DEF Replace
  <2> HIDE DEF e
  <2>2. Len(blacklists') = Len(blacklists)  BY <1>1, <2>1
  <2>3. QED  BY <1>1, <1>5, <2>1, <2>2 DEF blu
<1>7. ASSUME NEW out \in Outcome, AppendList(line, out) PROVE Sized(n + 1)'
  <2>1. Grow(out)  BY <1>7 DEF AppendList
  <2>2. /\ (blc' = Chunk * k \/ blc' = Chunk * (k + 1)) /\ blc' \in Nat /\ blc <= blc'
        /\ moved' \in {moved, moved + 1}
        /\ out # "nomem" => blu < blc'
    BY <1>1, <1>2, <1>3, <1>4, <2>1 DEF Grow
  <2>3. blu' = blu \/ (out # "nomem" /\ blu' = blu + 1)
    <3>1. CASE out = "ok"
      <4> DEFINE e == [tag |-> line.tag, addrs |-> line.addrs]
      <4>1. blacklists' = Append(blacklists, e)  BY <1>7, <3>1 DEF AppendList
      <4> HIDE DEF e
      <4>2. Len(blacklists') = Len(blacklists) + 1  BY <1>1, <4>1
      <4>3. QED  BY <1>1, <3>1, <4>2 DEF blu
    <3>2. CASE out # "ok"
      <4>1. blacklists' = blacklists  BY <1>7, <3>2 DEF AppendList
      <4>2. QED  BY <4>1 DEF blu
    <3>3. QED  BY <3>1, <3>2
  <2>4. blu' <= blc' /\ blu' <= n + 1 /\ moved' <= n + 1
    BY <1>1, <1>4, <2>2, <2>3
  <2>5. \E j \in 0 .. n + 1 : blc' = Chunk * j  BY <1>3, <2>2
  <2>6. QED  BY <2>4, <2>5 DEF Sized
<1>8. CASE AddCrashes(line)
  BY <1>5, <1>8 DEF AddCrashes, listvars, blu
<1>9. QED  BY <1>6, <1>7, <1>8 DEF SdlAdd

(* LEMMA: every step keeps the bounds.                                     *)
LEMMA BoundsKept == Inv /\ Bounds /\ [Next]_vars => Bounds'
<1> SUFFICES ASSUME Inv, Bounds, [Next]_vars PROVE Bounds'  OBVIOUS
<1>1. /\ ListInv /\ PointInv /\ SessionInv /\ lines \in Nat /\ MaxLines \in Nat
      /\ conf # NoConn => conf.of \in Nat \ {0}
  BY BoundsAssumption DEF Inv, SessionInv
<1>2. lines <= MaxLines /\ (conf # NoConn => conf.of <= lines) /\ Sized(Used)
  BY DEF Bounds
<1>3. Used \in Nat  BY <1>1, <1>2 DEF Used
<1>4. \A n \in Nat : Sized(n) => Sized(n + 1)
  BY <1>1 DEF Sized, PointInv, Pointing, ListInv, Typed, blu
<1>5. ASSUME UNCHANGED listvars PROVE \A n : Sized(n) <=> Sized(n)'
  BY <1>5 DEF listvars, Sized, blu
<1>6. ASSUME UNCHANGED <<listvars, conf, lines>> PROVE Bounds'
  <2>1. Used' = Used  BY <1>6 DEF Used
  <2>2. QED  BY <1>2, <1>5, <1>6, <2>1 DEF Bounds
<1>7. ASSUME NEW line \in [tag : Tag, addrs : (SUBSET Ip) \ {{}}], Connect(line) PROVE Bounds'
  <2>1. conf = NoConn /\ lines < MaxLines /\ lines' = lines + 1 /\ UNCHANGED listvars
    BY <1>7 DEF Connect
  <2>2. conf'.of = lines'
    <3> DEFINE half(part) == [line |-> line, part |-> part, of |-> lines']
               todos == {<<>>, <<half("head")>>, <<half("head"), half("tail")>>}
    <3>1. conf' \in [of : {lines'}, todo : todos]  BY <1>7 DEF Connect
    <3> HIDE DEF todos
    <3>2. QED  BY <3>1
  <2>3. conf' # NoConn
    <3>1. conf'.of # 0  BY <1>1, <2>1, <2>2
    <3>2. QED  BY <3>1 DEF NoConn
  <2>4. Used' = Used  BY <1>1, <2>1, <2>3 DEF Used
  <2>5. QED  BY <1>1, <1>2, <1>5, <2>1, <2>2, <2>4 DEF Bounds
<1>8. CASE ReadConf
  <2>1. /\ conf # NoConn /\ UNCHANGED listvars /\ lines' = lines
        /\ conf'.of = conf.of
    <3>1. conf \in [of : Nat \ {0}, todo : Seq(AnyHalf)]  BY <1>1, <1>8 DEF SessionInv, ReadConf
    <3>2. QED  BY <1>8, <3>1 DEF ReadConf
  <2>2. conf' # NoConn
    <3>1. conf'.of # 0  BY <1>1, <2>1
    <3>2. QED  BY <3>1 DEF NoConn
  <2>3. Used' = Used  BY <2>1, <2>2 DEF Used
  <2>4. QED  BY <1>2, <1>5, <2>1, <2>3 DEF Bounds
<1>9. PICK n \in Nat : n = Used  BY <1>3
<1>10. ASSUME NEW line \in ListLine, SdlAdd(line) PROVE Sized(n + 1)'
  BY <1>1, <1>2, <1>9, <1>10, AddSizes
<1>11. ASSUME UNCHANGED listvars PROVE Sized(n + 1)'
  BY <1>2, <1>4, <1>5, <1>9, <1>11
<1>12. ASSUME Sized(n + 1)', conf # NoConn, conf' = NoConn, lines' = lines PROVE Bounds'
  <2>1. Used' = n + 1  BY <1>1, <1>9, <1>12 DEF Used
  <2>2. QED  BY <1>2, <1>12, <2>1 DEF Bounds, Sized
<1>13. CASE ReadError
  BY <1>11, <1>12, <1>13 DEF ReadError
<1>14. CASE ReadEof
  <2>1. conf # NoConn /\ conf' = NoConn /\ lines' = lines
        /\ IF cb = <<>> THEN Ignored ELSE ParseLine
    BY <1>14 DEF ReadEof
  <2>2. Ignored \/ \E line \in ListLine : SdlAdd(line)  BY <1>1, <2>1, Parsed
  <2>3. Sized(n + 1)'  BY <1>10, <1>11, <2>2 DEF Ignored
  <2>4. QED  BY <1>12, <2>1, <2>3
<1>15. ASSUME NEW addrs \in (SUBSET Ip) \ {{}}, ReadTrapLine(addrs) PROVE Bounds'
  <2> DEFINE line == [tag |-> Greytrap, addrs |-> addrs]
  <2>1. line \in ListLine  BY DEF ListLine, Lists
  <2>2. lines < MaxLines /\ lines' = lines + 1 /\ conf' = conf /\ (SdlAdd(line) \/ Ignored)
    BY <1>15 DEF ReadTrapLine
  <2> HIDE DEF line
  <2>3. Sized(n + 1)'  BY <1>10, <1>11, <2>1, <2>2 DEF Ignored
  <2>4. Used' = n + 1  BY <1>1, <1>9, <2>2 DEF Used
  <2>5. lines' <= MaxLines /\ (conf' # NoConn => conf'.of <= lines')
    BY <1>1, <1>2, <2>2
  <2>6. QED  BY <2>3, <2>4, <2>5 DEF Bounds, Sized
<1>16. ASSUME NEW i \in Slot, NEW ip \in Ip, InitCon(i, ip) PROVE Bounds'
  BY <1>6, <1>16 DEF InitCon
<1>17. ASSUME NEW i \in Slot, BuildReply(i) \/ CloseCon(i) PROVE Bounds'
  BY <1>6, <1>17 DEF BuildReply, CloseCon
<1>18. CASE UNCHANGED vars
  BY <1>6, <1>18 DEF vars
<1>19. QED
  BY <1>7, <1>8, <1>13, <1>14, <1>15, <1>16, <1>17, <1>18 DEF Next

(* LEMMA: they always hold.                                                *)
LEMMA BoundsInvariant == Spec => []Bounds
<1>1. Init => Bounds
  <2> SUFFICES ASSUME Init PROVE Bounds  OBVIOUS
  <2>1. blacklists = <<>> /\ Len(blacklists) = 0 /\ blc = 0 /\ moved = 0 /\ conf = NoConn /\ lines = 0
    BY DEF Init
  <2>2. Chunk * 0 = 0 /\ MaxLines \in Nat  BY BoundsAssumption
  <2>3. Used = 0  BY <2>1 DEF Used
  <2>4. QED  BY <2>1, <2>2, <2>3 DEF Bounds, Sized, blu
<1>2. QED  BY <1>1, BoundsKept, Invariant, PTL DEF Spec

(* THEOREM: the array never has more elements than are allocated for it,   *)
(* however it is replaced, fails and grows; it grows by one Chunk at a     *)
(* time and once a line at most (sdl_add), and pointers are into it.       *)
THEOREM TypeCorrect == Spec => []TypeOK
<1>1. ASSUME Inv, Bounds PROVE TypeOK
  <2>1. /\ ListInv /\ PointInv /\ SessionInv /\ lines \in Nat /\ MaxLines \in Nat
        /\ Chunk \in Nat /\ blu = Len(blacklists) /\ blu \in Nat /\ moved \in Nat
    BY <1>1, BoundsAssumption DEF Inv, SessionInv, PointInv, Pointing, blu, ListInv, Typed
  <2>2. conf # NoConn =>
          conf \in [of : Nat \ {0}, todo : Seq(AnyHalf)] /\ \E line \in ListLine : Session(line)
    BY <2>1 DEF SessionInv
  <2>3. lines <= MaxLines /\ (conf # NoConn => conf.of <= lines) /\ Sized(Used)  BY <1>1 DEF Bounds
  <2>4. Used \in 0 .. MaxLines  BY <2>1, <2>2, <2>3 DEF Used
  <2>5. blu <= blc /\ blu <= MaxLines /\ moved \in 0 .. MaxLines
        /\ blc \in {Chunk * n : n \in 0 .. MaxLines}
    BY <2>1, <2>3, <2>4 DEF Sized, PointInv, Pointing
  <2>6. ASSUME conf # NoConn
        PROVE  conf \in [of : 1 .. MaxLines, todo : Seq(Half)] /\ cb \in Seq(Half)
    <3>1. PICK line \in ListLine : Session(line)  BY <2>2, <2>6
    <3>2. conf.of \in 1 .. MaxLines  BY <2>1, <2>2, <2>3, <2>6
    <3>3. \A k \in 1 .. 2 : HalfOf(line, k) \in Half
      BY <3>2 DEF HalfOf, Half, ListLine, Line
    <3> HIDE DEF Half
    <3>4. cb \in Seq(AnyHalf) /\ conf.todo \in Seq(AnyHalf)  BY <2>1, <2>2, <2>6 DEF SessionInv
    <3>5. Len(cb) \in Nat /\ Len(conf.todo) \in Nat  BY <3>4
    <3>6. \A k \in 1 .. Len(cb) : cb[k] \in Half  BY <3>1, <3>3, <3>5 DEF Session
    <3>7. \A k \in 1 .. Len(conf.todo) : conf.todo[k] \in Half
      <4> SUFFICES ASSUME NEW k \in 1 .. Len(conf.todo) PROVE conf.todo[k] \in Half  OBVIOUS
      <4>1. Len(cb) + k \in 1 .. 2  BY <3>1, <3>5 DEF Session
      <4>2. conf.todo[k] = HalfOf(line, Len(cb) + k)  BY <3>1 DEF Session
      <4>3. QED  BY <3>3, <4>1, <4>2
    <3>8. cb \in Seq(Half) /\ conf.todo \in Seq(Half)  BY <3>4, <3>6, <3>7
    <3>9. QED  BY <2>2, <2>6, <3>2, <3>8
  <2>7. conf = NoConn => cb = <<>>  BY <2>1 DEF SessionInv
  <2>8. cb \in Seq(Half)
    <3>1. <<>> \in Seq(Half)  OBVIOUS
    <3>2. QED  BY <2>6, <2>7, <3>1
  <2>9. con \in [Slot -> [ip : Ip \cup {NULL}, to : SUBSET Pointer]]
    <3>1. con \in [Slot -> [ip : Ip \cup {NULL}, to : SUBSET [array : Nat, idx : Nat, tag : Lists]]]
          /\ \A i \in Slot : \A p \in con[i].to : p.array <= moved /\ p.idx \in 1 .. blu
      BY <2>1 DEF PointInv, Pointing
    <3>2. ASSUME NEW i \in Slot PROVE con[i] \in [ip : Ip \cup {NULL}, to : SUBSET Pointer]
      <4>1. con[i] \in [ip : Ip \cup {NULL}, to : SUBSET [array : Nat, idx : Nat, tag : Lists]]
        BY <3>1
      <4>2. ASSUME NEW p \in con[i].to PROVE p \in Pointer
        <5>1. p \in [array : Nat, idx : Nat, tag : Lists]  BY <4>1
        <5>2. p.array <= moved /\ p.idx \in 1 .. blu  BY <3>1
        <5>3. QED  BY <2>1, <2>5, <5>1, <5>2 DEF Pointer
      <4>3. QED  BY <4>1, <4>2
    <3>3. QED  BY <3>1, <3>2
  <2>10. blacklists \in Seq(Element) /\ last \in [Lists -> SUBSET Ip]
         /\ {failed, overrun, dead} \subseteq BOOLEAN
    BY <2>1 DEF ListInv, Typed
  <2>11. conf = NoConn \/ conf \in [of : 1 .. MaxLines, todo : Seq(Half)]  BY <2>6
  <2>12. lines \in 0 .. MaxLines  BY <2>1, <2>3
  <2>13. QED  BY <2>1, <2>5, <2>8, <2>9, <2>10, <2>11, <2>12 DEF TypeOK
<1>2. QED  BY <1>1, Invariant, BoundsInvariant, PTL
=============================================================================
