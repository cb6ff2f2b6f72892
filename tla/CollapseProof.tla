---------------------------- MODULE CollapseProof ----------------------------
(***************************************************************************)
(* Proofs about Collapse, for words of any width and any number of lines:  *)
(* the sweep of collapse_blacklist is exact and its ranges do not touch,   *)
(* range2cidrlist cuts each into as few netblocks as can be, and what is   *)
(* printed is what the lists say.  range2cidrlist's loop is a recursive    *)
(* function; what it returns is proved by looking at the last address for  *)
(* which it would return something else.                                   *)
(***************************************************************************)
EXTENDS Collapse, SequenceTheorems, FiniteSetTheorems, WellFoundedInduction, TLAPS

(* LEMMA: the address after a line's last one wraps, at the Top only.      *)
LEMMA AfterInside ==
  ASSUME NEW last \in Addr
  PROVE  After(last) \in Addr /\ (last # Top => After(last) = last + 1)
<1>1. Top \in Nat /\ last \in Nat /\ last <= Top  BY WidthAssumption DEF Addr
<1> HIDE DEF Top
<1>2. CASE last = Top
  <2>1. (Top + 1) % (Top + 1) = 0  BY <1>1
  <2>2. QED  BY <1>1, <1>2, <2>1 DEF After, Addr
<1>3. CASE last # Top
  <2>1. last + 1 < Top + 1  BY <1>1, <1>3
  <2>2. (last + 1) % (Top + 1) = last + 1  BY <1>1, <2>1
  <2>3. QED  BY <1>1, <1>3, <2>1, <2>2 DEF After, Addr
<1>4. QED  BY <1>2, <1>3

-----------------------------------------------------------------------------
(* What the entries say of the number of lines that cover an address: it   *)
(* changes by an entry's sum where there is an entry, and nowhere else.    *)

Steps(sum, n) ==
  sum[0] = n[0] /\ \A a \in Addr : a # 0 => n[a] = n[a - 1] + sum[a]
Flat(n, es) ==
  \A a, c \in Addr : a <= c /\ (\A x \in es : ~(a < x /\ x <= c)) => n[a] = n[c]
Bare(n, es) == \A a \in Addr : (\A x \in es : a < x) => n[a] = 0
Consistent(sum, n, es) == Steps(sum, n) /\ Flat(n, es) /\ Bare(n, es)

(* LEMMA: a line of the other colour only adds entries.                    *)
LEMMA MoreEntries ==
  ASSUME NEW sum, NEW n, NEW es, NEW more, es \subseteq more, Consistent(sum, n, es)
  PROVE  Consistent(sum, n, more)
BY DEF Consistent, Flat, Bare

(* LEMMA: parse_netblock's two entries say what the line covers.           *)
LEMMA AddLine ==
  ASSUME NEW sum \in [Addr -> Int], NEW n \in [Addr -> Nat], NEW es,
         NEW first \in Addr, NEW last \in Addr, first <= last, last # Top,
         Consistent(sum, n, es)
  PROVE  Consistent(Counted(sum, first, last), Covered(n, first, last),
                    es \cup {first, After(last)})
<1> DEFINE m == Covered(n, first, last)
           s == Counted(sum, first, last)
           more == es \cup {first, last + 1}
<1>1. After(last) = last + 1  BY AfterInside
<1>2. Top \in Nat /\ Addr \subseteq Nat /\ 0 \in Addr
      /\ \A a \in Addr : a # 0 => a - 1 \in Addr
  BY WidthAssumption DEF Addr
<1> HIDE DEF Addr
<1>3. \A a \in Addr : m[a] = n[a] + (IF first <= a /\ a <= last THEN 1 ELSE 0)
  BY DEF Covered, Covers
<1>4. \A a \in Addr : s[a] = sum[a] + (IF a = first THEN 1 ELSE 0)
                                    - (IF a = last + 1 THEN 1 ELSE 0)
  BY <1>1 DEF Counted
<1>5. first \in Nat /\ last \in Nat /\ \A a \in Addr : a \in Nat /\ n[a] \in Nat /\ sum[a] \in Int
  BY <1>2
<1> HIDE DEF m, s
<1>6. Steps(s, m)
  <2>1. s[0] = m[0]  BY <1>2, <1>3, <1>4, <1>5 DEF Consistent, Steps
  <2>2. ASSUME NEW a \in Addr, a # 0 PROVE m[a] = m[a - 1] + s[a]
    <3>1. a - 1 \in Addr /\ n[a] = n[a - 1] + sum[a]
      BY <1>2, <2>2 DEF Consistent, Steps
    <3>2. m[a] = n[a] + (IF first <= a /\ a <= last THEN 1 ELSE 0)  BY <1>3
    <3>3. m[a - 1] = n[a - 1] + (IF first <= a - 1 /\ a - 1 <= last THEN 1 ELSE 0)
      BY <1>3, <3>1
    <3>4. s[a] = sum[a] + (IF a = first THEN 1 ELSE 0) - (IF a = last + 1 THEN 1 ELSE 0)
      BY <1>4
    <3>5. a \in Nat /\ n[a] \in Nat /\ n[a - 1] \in Nat /\ sum[a] \in Int  BY <1>5, <3>1
    <3>6. QED  BY <1>5, <3>1, <3>2, <3>3, <3>4, <3>5
  <2>3. QED  BY <2>1, <2>2 DEF Steps
<1>7. Flat(m, more)
  <2> SUFFICES ASSUME NEW a \in Addr, NEW c \in Addr, a <= c,
                      \A x \in more : ~(a < x /\ x <= c)
               PROVE  m[a] = m[c]
    BY DEF Flat
  <2>1. n[a] = n[c]  BY DEF Consistent, Flat
  <2>2. ~(a < first /\ first <= c) /\ ~(a < last + 1 /\ last + 1 <= c)  OBVIOUS
  <2>3. QED  BY <1>3, <1>5, <2>1, <2>2
<1>8. Bare(m, more)
  <2> SUFFICES ASSUME NEW a \in Addr, \A x \in more : a < x PROVE m[a] = 0
    BY DEF Bare
  <2>1. n[a] = 0  BY DEF Consistent, Bare
  <2>2. a < first  OBVIOUS
  <2>3. QED  BY <1>3, <1>5, <2>1, <2>2
<1>9. QED  BY <1>1, <1>6, <1>7, <1>8 DEF Consistent, m, s

-----------------------------------------------------------------------------
(* The parts of the invariant.                                             *)

Typed ==
  /\ {b, w} \subseteq [Addr -> Int] /\ {nb, nw} \subseteq [Addr -> Nat]
  /\ addrs \subseteq Addr /\ todo \subseteq addrs
  /\ odd \in BOOLEAN
  /\ bs \in Int /\ ws \in Int /\ state \in {0, 1}
  /\ bstart \in Addr /\ cl \in Seq(Addr \X Addr)

Rest == stage = "parse" => /\ todo = {} /\ bs = 0 /\ ws = 0 /\ state = 0
                           /\ cl = <<>> /\ ~strayed

(* The ranges so far end, and the open one begins, before what is to come. *)
Behind ==
  /\ \A i \in 1 .. Len(cl) : \A t \in todo : cl[i][2] + 1 < t
  /\ state = 1 => /\ \A t \in todo : bstart < t
                  /\ \A i \in 1 .. Len(cl) : cl[i][2] + 1 < bstart

(* Unless a line is odd, entries and lines agree; the sweep's counters are *)
(* those of all addresses from the last entry it has reached to the next.  *)
Agreed == ~odd => Consistent(b, nb, addrs) /\ Consistent(w, nw, addrs)
Reached == addrs \ todo
InOrder == \A x \in Reached, t \in todo : x < t
Current(a) == a \in Swept /\ \A x \in Reached : x <= a
UpToDate ==
  /\ strayed => todo = {}
  /\ stage # "parse" /\ ~odd /\ ~strayed =>
       /\ Reached = {} => bs = 0 /\ ws = 0
       /\ \A a \in Addr : Current(a) => nb[a] = bs /\ nw[a] = ws

Inv ==
  /\ Typed /\ Rest /\ RangesApart /\ Behind
  /\ Agreed /\ InOrder /\ UpToDate /\ SweepExact

(* LEMMA: Addr is an interval of the naturals that begins with 0.          *)
LEMMA AddrIsInterval ==
  /\ Top \in Nat /\ 0 \in Addr
  /\ \A a \in Addr : a \in Nat /\ a \in Int /\ a <= Top /\ (a # 0 => a - 1 \in Addr)
  /\ \A a : a \in Nat /\ a <= Top => a \in Addr
BY WidthAssumption DEF Addr

-----------------------------------------------------------------------------
(* LEMMA: the invariant holds initially.                                   *)
LEMMA InitInv == Init => Inv
<1> SUFFICES ASSUME Init PROVE Inv  OBVIOUS
<1> USE DEF Init
<1> DEFINE zero == [a \in Addr |-> 0]
<1>1. b = zero /\ w = zero /\ nb = zero /\ nw = zero  OBVIOUS
<1>2. \A a \in Addr : zero[a] = 0  OBVIOUS
<1>3. zero \in [Addr -> Int] /\ zero \in [Addr -> Nat]  OBVIOUS
<1> HIDE DEF zero
<1>4. cl = <<>> /\ Len(cl) = 0 /\ cl \in Seq(Addr \X Addr)  OBVIOUS
<1>5. Typed
  BY <1>1, <1>3, <1>4, AddrIsInterval DEF Typed
<1>6. Consistent(zero, zero, {})
  BY <1>2, AddrIsInterval DEF Consistent, Steps, Flat, Bare
<1>7. Rest /\ RangesApart /\ Behind /\ InOrder /\ UpToDate /\ SweepExact
  BY <1>4 DEF Rest, RangesApart, Behind, InOrder, UpToDate, SweepExact
<1>8. QED  BY <1>1, <1>5, <1>6, <1>7 DEF Inv, Agreed

(* LEMMA: reading a line keeps it.                                         *)
LEMMA ParseKeeps ==
  ASSUME Inv, NEW first \in Addr, NEW last \in Addr, NEW white \in BOOLEAN,
         ParseNetblock(first, last, white)
  PROVE  Inv'
<1> DEFINE more == addrs \cup {first, After(last)}
<1>1. /\ stage = "parse" /\ stage' = "parse" /\ UNCHANGED sweep
      /\ addrs' = more /\ odd' = (odd \/ first > last \/ last = Top)
  BY DEF ParseNetblock
<1>2. IF white THEN /\ w' = Counted(w, first, last) /\ nw' = Covered(nw, first, last)
                    /\ UNCHANGED <<b, nb>>
      ELSE /\ b' = Counted(b, first, last) /\ nb' = Covered(nb, first, last)
           /\ UNCHANGED <<w, nw>>
  BY DEF ParseNetblock
<1>3. Typed /\ Rest  BY DEF Inv
<1>4. /\ \A sum \in [Addr -> Int] : Counted(sum, first, last) \in [Addr -> Int]
      /\ \A n \in [Addr -> Nat] : Covered(n, first, last) \in [Addr -> Nat]
  BY DEF Counted, Covered
<1>5. {b, w}' \subseteq [Addr -> Int] /\ {nb, nw}' \subseteq [Addr -> Nat]
  BY <1>2, <1>3, <1>4 DEF Typed
<1>6. more \subseteq Addr /\ addrs \subseteq more
  BY <1>3, AfterInside DEF Typed
<1>7. odd' \in BOOLEAN  BY <1>1, <1>3 DEF Typed
<1>8. Typed' /\ Rest'
  BY <1>1, <1>3, <1>5, <1>6, <1>7 DEF Typed, Rest, sweep
<1>9. RangesApart' /\ Behind'
  BY <1>1 DEF Inv, RangesApart, Behind, sweep
<1>10. InOrder' /\ UpToDate' /\ SweepExact'
  BY <1>1, <1>3 DEF InOrder, Rest, UpToDate, SweepExact, sweep
<1>11. Agreed'
  <2> SUFFICES ASSUME ~odd' PROVE Consistent(b', nb', more) /\ Consistent(w', nw', more)
    BY <1>1 DEF Agreed
  <2>1. ~odd /\ first <= last /\ last # Top
    <3>1. ~(odd \/ first > last \/ last = Top)  BY <1>1, Zenon
    <3>2. first \in Nat /\ last \in Nat  BY AddrIsInterval
    <3>3. QED  BY <3>1, <3>2
  <2>2. Consistent(b, nb, addrs) /\ Consistent(w, nw, addrs)
    BY <2>1 DEF Inv, Agreed
  <2>3. Consistent(b, nb, more) /\ Consistent(w, nw, more)
    BY <1>6, <2>2, MoreEntries
  <2>4. /\ Consistent(Counted(b, first, last), Covered(nb, first, last), more)
        /\ Consistent(Counted(w, first, last), Covered(nw, first, last), more)
    BY <1>3, <2>1, <2>2, AddLine DEF Typed
  <2>5. QED  BY <1>2, <2>3, <2>4
<1>12. QED  BY <1>8, <1>9, <1>10, <1>11 DEF Inv

(* LEMMA: beginning the sweep keeps it.                                    *)
LEMMA SendKeeps == ASSUME Inv, SendBlacklist PROVE Inv'
<1>1. /\ stage = "parse" /\ todo' = addrs
      /\ UNCHANGED <<b, w, addrs, nb, nw, odd, bs, ws, state, bstart, cl, strayed>>
  BY DEF SendBlacklist, entries
<1>2. Typed /\ Agreed /\ bs = 0 /\ ws = 0 /\ state = 0 /\ cl = <<>> /\ ~strayed
  BY <1>1 DEF Inv, Rest
<1>3. Typed' /\ Agreed'  BY <1>1, <1>2 DEF Typed, Agreed
<1>4. Rest'  BY DEF SendBlacklist, Rest
<1>5. Len(cl) = 0  BY <1>2
<1>6. RangesApart' /\ Behind'
  BY <1>1, <1>2, <1>5 DEF RangesApart, Behind
<1>7. Reached' = {}  BY <1>1 DEF Reached
<1>8. InOrder'  BY <1>7 DEF InOrder
<1>9. ASSUME ~odd PROVE \A a \in Swept' : nb[a] = 0 /\ nw[a] = 0
  BY <1>1, <1>2, <1>9 DEF Agreed, Consistent, Bare, Swept
<1>10. UpToDate'
  BY <1>1, <1>2, <1>9 DEF UpToDate, Current
<1>11. SweepExact'
  <2> SUFFICES ASSUME ~odd PROVE (Listed \cap Swept)' = InRanges'
    BY <1>1, <1>2 DEF SweepExact
  <2>1. InRanges' = {}
    BY <1>1, <1>2 DEF InRanges, ToSet
  <2>2. (Listed \cap Swept)' = {}
    BY <1>1, <1>9 DEF Listed
  <2>3. QED  BY <2>1, <2>2
<1>12. QED  BY <1>3, <1>4, <1>6, <1>8, <1>10, <1>11 DEF Inv

(* LEMMA: the sets the sweep goes by, at an address that has an entry.     *)
LEMMA SweepSets ==
  ASSUME Typed, InOrder, NEW addr \in todo, \A a \in todo : addr <= a,
         UNCHANGED addrs, todo' = todo \ {addr}
  PROVE  /\ addr \in Addr /\ Reached' = Reached \cup {addr} /\ InOrder'
         /\ Swept = {a \in Addr : a < addr}
         /\ \A a \in Addr : a \in Swept' <=> a \in Swept \/ (addr <= a /\ \A t \in todo' : a < t)
         /\ \A x \in Reached : x < addr
         /\ addr # 0 => Current(addr - 1)
         /\ addr = 0 => Reached = {}
<1>1. addr \in Addr /\ todo \subseteq Addr /\ Reached \subseteq Addr /\ addr \in addrs
      /\ \A a \in Addr : a \in Nat
  BY AddrIsInterval DEF Typed, Reached
<1>2. Reached' = Reached \cup {addr}  BY <1>1 DEF Reached
<1>3. \A t \in todo' : addr < t  BY <1>1
<1>4. \A x \in Reached : x < addr  BY DEF InOrder
<1>5. InOrder'  BY <1>2, <1>3 DEF InOrder
<1>6. Swept = {a \in Addr : a < addr}  BY <1>1 DEF Swept
<1>7. \A a \in Addr : a \in Swept' <=> a \in Swept \/ (addr <= a /\ \A t \in todo' : a < t)
  <2> SUFFICES ASSUME NEW a \in Addr
               PROVE  a \in Swept' <=> a \in Swept \/ (addr <= a /\ \A t \in todo' : a < t)
    OBVIOUS
  <2>1. a \in Swept' <=> \A t \in todo' : a < t  BY DEF Swept
  <2>2. a \in Swept <=> a < addr  BY <1>6
  <2>3. a < addr => \A t \in todo' : a < t  BY <1>1, <1>3
  <2>4. a < addr \/ addr <= a  BY <1>1
  <2>5. QED  BY <2>1, <2>2, <2>3, <2>4
<1>8. addr # 0 => Current(addr - 1)
  <2> SUFFICES ASSUME addr # 0 PROVE Current(addr - 1)  OBVIOUS
  <2>1. addr - 1 \in Addr /\ addr - 1 < addr  BY <1>1, AddrIsInterval
  <2>2. \A x \in Reached : x <= addr - 1  BY <1>1, <1>4
  <2>3. QED  BY <1>6, <2>1, <2>2 DEF Current
<1>9. addr = 0 => Reached = {}  BY <1>1, <1>4
<1>10. QED  BY <1>1, <1>2, <1>4, <1>5, <1>6, <1>7, <1>8, <1>9

(* LEMMA: one more range.                                                  *)
LEMMA OneMore ==
  ASSUME cl \in Seq(Addr \X Addr), NEW r \in Addr \X Addr, cl' = Append(cl, r)
  PROVE  /\ cl' \in Seq(Addr \X Addr) /\ Len(cl') = Len(cl) + 1 /\ Len(cl) \in Nat
         /\ \A i \in 1 .. Len(cl) : cl'[i] = cl[i]
         /\ cl'[Len(cl) + 1] = r
         /\ InRanges' = InRanges \cup (r[1] .. r[2])
<1>1. /\ cl' \in Seq(Addr \X Addr) /\ Len(cl') = Len(cl) + 1 /\ Len(cl) \in Nat
      /\ \A i \in 1 .. Len(cl) : cl'[i] = cl[i]
      /\ cl'[Len(cl) + 1] = r
  OBVIOUS
<1>2. ToSet(cl') = ToSet(cl) \cup {r}
  <2>1. DOMAIN cl = 1 .. Len(cl) /\ DOMAIN cl' = 1 .. Len(cl) + 1
    BY <1>1
  <2>2. 1 .. Len(cl) + 1 = 1 .. Len(cl) \cup {Len(cl) + 1}  BY <1>1
  <2>3. QED  BY <1>1, <2>1, <2>2 DEF ToSet
<1>3. InRanges' = UNION {x[1] .. x[2] : x \in ToSet(cl')}  BY DEF InRanges
<1>4. InRanges' = InRanges \cup (r[1] .. r[2])
  BY <1>2, <1>3 DEF InRanges
<1>5. QED  BY <1>1, <1>4

(* LEMMA: the ranges stay apart, and behind what is to come.               *)
LEMMA SweepKeepsApart ==
  ASSUME Inv, NEW addr \in Addr, NEW stray \in Stray, Sweep(addr, stray)
  PROVE  cl' \in Seq(Addr \X Addr) /\ bstart' \in Addr /\ RangesApart' /\ Behind'
<1>1. /\ addr \in todo /\ (\A a \in todo : addr <= a) /\ todo' = todo \ {addr}
      /\ bstart' = IF state = 0 /\ state' = 1 THEN addr ELSE bstart
      /\ cl' = IF state = 1 /\ state' = 0 THEN Append(cl, <<bstart, addr - 1>>) ELSE cl
  BY DEF Sweep
<1>2. Typed /\ RangesApart /\ Behind  BY DEF Inv
<1>3. /\ cl \in Seq(Addr \X Addr) /\ Len(cl) \in Nat /\ bstart \in Nat /\ addr \in Nat
      /\ todo \subseteq Nat /\ bstart \in Addr
  BY <1>2, AddrIsInterval DEF Typed
<1>4. \A i \in 1 .. Len(cl) : cl[i][1] \in Nat /\ cl[i][2] \in Nat
  <2> SUFFICES ASSUME NEW i \in 1 .. Len(cl) PROVE cl[i][1] \in Nat /\ cl[i][2] \in Nat  OBVIOUS
  <2>1. cl[i] \in Addr \X Addr  BY <1>3, ElementOfSeq
  <2>2. QED  BY <2>1, AddrIsInterval
<1>5. \A t \in todo' : t \in todo /\ addr < t /\ t \in Nat
  BY <1>1, <1>3
<1>6. \A i \in 1 .. Len(cl) : cl[i][2] + 1 < addr
  BY <1>1, <1>2 DEF Behind
<1>7. CASE state = 1 /\ state' = 0
  <2> DEFINE r == <<bstart, addr - 1>>
  <2>1. bstart < addr  BY <1>1, <1>2, <1>7 DEF Behind
  <2>2. r \in Addr \X Addr /\ r[1] = bstart /\ r[2] = addr - 1
    BY <1>3, <2>1, AddrIsInterval
  <2>3. cl' = Append(cl, r) /\ bstart' = bstart  BY <1>1, <1>7
  <2> HIDE DEF r
  <2>4. /\ cl' \in Seq(Addr \X Addr) /\ Len(cl') = Len(cl) + 1
        /\ \A i \in 1 .. Len(cl) : cl'[i] = cl[i]
        /\ cl'[Len(cl) + 1] = r
    BY <1>3, <2>2, <2>3, OneMore
  <2>5. \A i \in 1 .. Len(cl') : i \in 1 .. Len(cl) \/ i = Len(cl) + 1
    BY <1>3, <2>4
  <2>6. RangesApart'
    <3>1. \A i \in 1 .. Len(cl') : cl'[i][1] <= cl'[i][2]
      BY <1>2, <1>3, <2>1, <2>2, <2>4, <2>5 DEF RangesApart
    <3>2. ASSUME NEW i \in 1 .. Len(cl'), NEW j \in 1 .. Len(cl'), i < j
          PROVE  cl'[i][2] + 1 < cl'[j][1]
      <4>1. i \in 1 .. Len(cl)  BY <1>3, <2>4, <3>2
      <4>2. CASE j \in 1 .. Len(cl)  BY <1>2, <2>4, <3>2, <4>1, <4>2 DEF RangesApart
      <4>3. CASE j = Len(cl) + 1
        <5>1. cl[i][2] + 1 < bstart  BY <1>2, <1>7, <4>1 DEF Behind
        <5>2. QED  BY <2>2, <2>4, <4>1, <4>3, <5>1
      <4>4. QED  BY <2>5, <4>2, <4>3
    <3>3. QED  BY <3>1, <3>2 DEF RangesApart
  <2>7. Behind'
    <3>1. ASSUME NEW i \in 1 .. Len(cl'), NEW t \in todo' PROVE cl'[i][2] + 1 < t
      <4>1. CASE i \in 1 .. Len(cl)  BY <1>2, <1>5, <2>4, <4>1 DEF Behind
      <4>2. CASE i = Len(cl) + 1  BY <1>3, <1>5, <2>2, <2>4, <4>2
      <4>3. QED  BY <2>5, <4>1, <4>2
    <3>2. QED  BY <1>7, <3>1 DEF Behind
  <2>8. QED  BY <1>3, <2>3, <2>4, <2>6, <2>7
<1>8. CASE ~(state = 1 /\ state' = 0)
  <2>1. cl' = cl  BY <1>1, <1>8
  <2>2. RangesApart'  BY <1>2, <2>1 DEF RangesApart
  <2>3. bstart' \in Addr  BY <1>1, <1>3
  <2>4. Behind'
    <3>1. \A i \in 1 .. Len(cl) : \A t \in todo' : cl[i][2] + 1 < t
      BY <1>2, <1>5 DEF Behind
    <3>2. CASE state = 0 /\ state' = 1
      BY <1>1, <1>5, <1>6, <2>1, <3>1, <3>2 DEF Behind
    <3>3. CASE ~(state = 0 /\ state' = 1)
      <4>1. bstart' = bstart  BY <1>1, <3>3
      <4>2. state \in {0, 1}  BY <1>2 DEF Typed
      <4>3. state' = 1 => state = 1  BY <3>3, <4>2
      <4>4. QED  BY <1>2, <1>5, <2>1, <3>1, <4>1, <4>3 DEF Behind
    <3>4. QED  BY <3>2, <3>3
  <2>5. QED  BY <1>3, <2>1, <2>2, <2>3, <2>4
<1>9. QED  BY <1>7, <1>8

(* LEMMA: the counters are those of the address the sweep has come to.     *)
LEMMA CountersFollow ==
  ASSUME Typed, UpToDate, NEW addr \in Addr, NEW sum \in [Addr -> Int], NEW n \in [Addr -> Nat],
         NEW count \in Int, Steps(sum, n),
         addr = 0 => count = 0, addr # 0 => n[addr - 1] = count
  PROVE  count + sum[addr] + 0 = n[addr] /\ n[addr] \in Nat
<1>1. sum[addr] \in Int /\ n[addr] \in Nat  OBVIOUS
<1>2. CASE addr = 0  BY <1>1, <1>2 DEF Steps
<1>3. CASE addr # 0  BY <1>1, <1>3 DEF Steps
<1>4. QED  BY <1>2, <1>3

(* LEMMA: an address is in a range or black according to its counters.     *)
LEMMA StateSays ==
  ASSUME NEW s \in {0, 1}, NEW black \in Nat, NEW white \in Nat
  PROVE  /\ NextState(s, black, white) \in {0, 1}
         /\ NextState(s, black, white) = 1 <=> black > 0 /\ white = 0
BY DEF NextState

(* LEMMA: one step of the sweep, with lines that are not odd and nothing   *)
(* counted from behind the array.                                          *)
LEMMA SweepExactly ==
  ASSUME Inv, NEW addr \in Addr, NEW stray \in Stray, Sweep(addr, stray), ~odd, ~strayed'
  PROVE  UpToDate' /\ SweepExact'
<1>1. /\ stage = "sweep" /\ addr \in todo /\ (\A a \in todo : addr <= a)
      /\ todo' = todo \ {addr} /\ strayed' = (stray # NoStray)
      /\ bs' = bs + b[addr] + stray.b /\ ws' = ws + w[addr] + stray.w
      /\ state' = NextState(state, bs', ws')
      /\ bstart' = IF state = 0 /\ state' = 1 THEN addr ELSE bstart
      /\ cl' = IF state = 1 /\ state' = 0 THEN Append(cl, <<bstart, addr - 1>>) ELSE cl
      /\ UNCHANGED <<addrs, nb, nw, odd, stage>>
  BY DEF Sweep, entries
<1>2. Typed /\ InOrder /\ Behind /\ UpToDate /\ SweepExact /\ Agreed  BY DEF Inv
<1>3. /\ Reached' = Reached \cup {addr}
      /\ Swept = {a \in Addr : a < addr}
      /\ \A a \in Addr : a \in Swept' <=> a \in Swept \/ (addr <= a /\ \A t \in todo' : a < t)
      /\ \A x \in Reached : x < addr
      /\ addr # 0 => Current(addr - 1)
      /\ addr = 0 => Reached = {}
  BY <1>1, <1>2, SweepSets
<1>4. ~strayed  BY <1>1, <1>2 DEF UpToDate
<1>5. stray = NoStray  BY <1>1, Zenon
<1>6. stray.b = 0 /\ stray.w = 0  BY <1>5 DEF NoStray
<1>7. /\ addr = 0 => bs = 0 /\ ws = 0
      /\ addr # 0 => nb[addr - 1] = bs /\ nw[addr - 1] = ws
  BY <1>1, <1>2, <1>3, <1>4, AddrIsInterval DEF UpToDate
<1>8. Consistent(b, nb, addrs) /\ Consistent(w, nw, addrs)  BY <1>2 DEF Agreed
<1>9. b \in [Addr -> Int] /\ w \in [Addr -> Int] /\ nb \in [Addr -> Nat] /\ nw \in [Addr -> Nat]
      /\ bs \in Int /\ ws \in Int /\ state \in {0, 1}
  BY <1>2 DEF Typed
<1>10. bs' = nb[addr] /\ nb[addr] \in Nat
  <2>1. Steps(b, nb)  BY <1>8 DEF Consistent
  <2>2. bs + b[addr] + 0 = nb[addr] /\ nb[addr] \in Nat
    BY <1>2, <1>7, <1>9, <2>1, CountersFollow
  <2>3. bs' = bs + b[addr] + 0  BY <1>1, <1>6
  <2>4. QED  BY <2>2, <2>3
<1>11. ws' = nw[addr] /\ nw[addr] \in Nat
  <2>1. Steps(w, nw)  BY <1>8 DEF Consistent
  <2>2. ws + w[addr] + 0 = nw[addr] /\ nw[addr] \in Nat
    BY <1>2, <1>7, <1>9, <2>1, CountersFollow
  <2>3. ws' = ws + w[addr] + 0  BY <1>1, <1>6
  <2>4. QED  BY <2>2, <2>3
<1>12. \A a \in Addr : addr <= a /\ (\A t \in todo' : a < t) => nb[a] = bs' /\ nw[a] = ws'
  <2> SUFFICES ASSUME NEW a \in Addr, addr <= a, \A t \in todo' : a < t
               PROVE  nb[a] = nb[addr] /\ nw[a] = nw[addr]
    BY <1>10, <1>11
  <2>1. \A x \in addrs : x \in todo' \/ x <= addr
    <3> SUFFICES ASSUME NEW x \in addrs PROVE x \in todo' \/ x <= addr  OBVIOUS
    <3>1. x \in Nat /\ addr \in Nat  BY <1>2, AddrIsInterval DEF Typed
    <3>2. CASE x \in todo  BY <1>1, <3>1, <3>2
    <3>3. CASE x \notin todo
      <4>1. x < addr  BY <1>3, <3>3 DEF Reached
      <4>2. QED  BY <3>1, <4>1
    <3>4. QED  BY <3>2, <3>3
  <2>2. \A x \in addrs : ~(addr < x /\ x <= a)
    <3> SUFFICES ASSUME NEW x \in addrs PROVE ~(addr < x /\ x <= a)  OBVIOUS
    <3>1. x \in Nat /\ addr \in Nat /\ a \in Nat  BY <1>2, AddrIsInterval DEF Typed
    <3>2. QED  BY <2>1, <3>1
  <2>3. QED  BY <1>8, <2>2 DEF Consistent, Flat
<1>13. UpToDate'
  <2>1. \A a \in Addr : Current(a)' => addr <= a /\ \A t \in todo' : a < t
    BY <1>3 DEF Current, Swept
  <2>2. Reached' # {}  BY <1>3
  <2>3. QED  BY <1>1, <1>12, <2>1, <2>2 DEF UpToDate
<1>14. state' \in {0, 1} /\ (state' = 1 <=> bs' > 0 /\ ws' = 0)
  BY <1>1, <1>9, <1>10, <1>11, StateSays
<1> DEFINE new == {a \in Addr : addr <= a /\ \A t \in todo' : a < t}
           open == IF state = 1 THEN {a \in Swept : bstart <= a} ELSE {}
           openNext == IF state' = 1 THEN {a \in Swept' : bstart' <= a} ELSE {}
<1>15. Swept' = Swept \cup new
  <2>1. Swept \subseteq Addr /\ Swept' \subseteq Addr  BY DEF Swept
  <2>2. QED  BY <1>3, <2>1
<1>16. Listed' = Listed /\ \A a \in new : a \in Listed <=> state' = 1
  <2>1. Listed' = Listed  BY <1>1 DEF Listed
  <2>2. \A a \in new : a \in Listed <=> bs' > 0 /\ ws' = 0
    BY <1>12 DEF Listed
  <2>3. QED  BY <1>14, <2>1, <2>2
<1>17. Listed \cap Swept = InRanges \cup open
  BY <1>1, <1>2, <1>4 DEF SweepExact
<1>18. addr \in Nat /\ bstart \in Nat /\ bstart \in Addr /\ \A a \in Addr : a \in Nat
  BY <1>2, AddrIsInterval DEF Typed
<1>19. state = 1 => bstart < addr  BY <1>1, <1>2 DEF Behind
<1>20. InRanges' \cup openNext = (InRanges \cup open) \cup (IF state' = 1 THEN new ELSE {})
  <2>1. CASE state = 0 /\ state' = 0
    <3>1. InRanges' = InRanges  BY <1>1, <2>1 DEF InRanges
    <3>2. QED  BY <2>1, <3>1
  <2>2. CASE state = 0 /\ state' = 1
    <3>1. InRanges' = InRanges /\ bstart' = addr  BY <1>1, <2>2 DEF InRanges
    <3>2. openNext = new
      <4>1. openNext = {a \in Swept \cup new : addr <= a}  BY <1>15, <2>2, <3>1
      <4>2. \A a \in Swept : ~(addr <= a)  BY <1>3, <1>18
      <4>3. QED  BY <4>1, <4>2
    <3>3. QED  BY <2>2, <3>1, <3>2
  <2>3. CASE state = 1 /\ state' = 1
    <3>1. InRanges' = InRanges /\ bstart' = bstart  BY <1>1, <2>3 DEF InRanges
    <3>2. openNext = {a \in Swept \cup new : bstart <= a}  BY <1>15, <2>3, <3>1
    <3>3. \A a \in new : bstart <= a  BY <1>18, <1>19, <2>3
    <3>4. openNext = open \cup new  BY <2>3, <3>2, <3>3
    <3>5. QED  BY <2>3, <3>1, <3>4
  <2>4. CASE state = 1 /\ state' = 0
    <3> DEFINE r == <<bstart, addr - 1>>
    <3>1. r \in Addr \X Addr /\ r[1] = bstart /\ r[2] = addr - 1
      BY <1>18, <1>19, <2>4, AddrIsInterval
    <3>2. cl' = Append(cl, r) /\ cl \in Seq(Addr \X Addr)  BY <1>1, <1>2, <2>4 DEF Typed
    <3> HIDE DEF r
    <3>3. InRanges' = InRanges \cup (bstart .. addr - 1)
      BY <3>1, <3>2, OneMore
    <3>4. open = bstart .. addr - 1
      <4>1. open = {a \in Addr : a < addr /\ bstart <= a}  BY <1>3, <2>4
      <4>2. \A a : a \in bstart .. addr - 1 => a \in Nat /\ a <= Top
        BY <1>18, AddrIsInterval
      <4>3. \A a : a \in bstart .. addr - 1 <=> a \in Addr /\ a < addr /\ bstart <= a
        <5>1. ASSUME NEW a, a \in bstart .. addr - 1
              PROVE  a \in Addr /\ a < addr /\ bstart <= a
          <6>1. a \in Int /\ bstart <= a /\ a <= addr - 1  BY <1>18, <5>1
          <6>2. a \in Addr  BY <4>2, <5>1, AddrIsInterval
          <6>3. QED  BY <1>18, <6>1, <6>2
        <5>2. ASSUME NEW a, a \in Addr, a < addr, bstart <= a
              PROVE  a \in bstart .. addr - 1
          BY <1>18, <5>2
        <5>3. QED  BY <5>1, <5>2
      <4>4. \A a : a \in open <=> a \in Addr /\ a < addr /\ bstart <= a
        BY <4>1
      <4> DEFINE gap == bstart .. addr - 1
      <4>5. \A a : a \in open <=> a \in gap  BY <4>3, <4>4
      <4> HIDE DEF open, gap
      <4>6. open = gap  BY <4>5
      <4>7. QED  BY <4>6 DEF gap
    <3>5. QED  BY <2>4, <3>3, <3>4
  <2>5. QED  BY <1>9, <1>14, <2>1, <2>2, <2>3, <2>4
<1>21. SweepExact'
  <2>1. (Listed \cap Swept)' = (Listed \cap Swept) \cup (IF state' = 1 THEN new ELSE {})
    BY <1>15, <1>16
  <2>2. (Listed \cap Swept)' = InRanges' \cup openNext
    BY <1>17, <1>20, <2>1
  <2>3. QED  BY <2>2 DEF SweepExact
<1>22. QED  BY <1>13, <1>21

(* LEMMA: every step of the sweep keeps the invariant.                     *)
LEMMA SweepKeeps ==
  ASSUME Inv, NEW addr \in Addr, NEW stray \in Stray, Sweep(addr, stray)
  PROVE  Inv'
<1>1. /\ stage = "sweep" /\ addr \in todo /\ (\A a \in todo : addr <= a)
      /\ todo' = todo \ {addr} /\ (stray # NoStray => todo = {addr})
      /\ strayed' = (stray # NoStray)
      /\ bs' = bs + b[addr] + stray.b /\ ws' = ws + w[addr] + stray.w
      /\ state' = NextState(state, bs', ws')
      /\ UNCHANGED <<b, w, addrs, nb, nw, odd, stage>>
  BY DEF Sweep, entries
<1>2. Typed /\ InOrder /\ Agreed  BY DEF Inv
<1>3. cl' \in Seq(Addr \X Addr) /\ bstart' \in Addr /\ RangesApart' /\ Behind'
  BY SweepKeepsApart
<1>4. Typed'
  <2>1. stray.b \in Int /\ stray.w \in Int  BY DEF Stray
  <2>2. b[addr] \in Int /\ w[addr] \in Int /\ bs \in Int /\ ws \in Int  BY <1>2 DEF Typed
  <2>3. bs' \in Int /\ ws' \in Int  BY <1>1, <2>1, <2>2
  <2>4. state' \in {0, 1}  BY <1>1, <1>2 DEF NextState, Typed
  <2>5. QED  BY <1>1, <1>2, <1>3, <2>3, <2>4 DEF Typed
<1>5. InOrder'  BY <1>1, <1>2, SweepSets
<1>6. Rest' /\ Agreed'  BY <1>1, <1>2 DEF Rest, Agreed
<1>7. UpToDate' /\ SweepExact'
  <2>1. CASE ~odd /\ ~strayed'  BY <2>1, SweepExactly
  <2>2. CASE odd \/ strayed'
    <3>1. strayed' => todo' = {}  BY <1>1
    <3>2. odd' \/ strayed'  BY <1>1, <2>2
    <3>3. QED  BY <3>1, <3>2 DEF UpToDate, SweepExact
  <2>3. QED  BY <2>1, <2>2
<1>8. QED  BY <1>3, <1>4, <1>5, <1>6, <1>7 DEF Inv

(* LEMMA: every step keeps the invariant.                                  *)
LEMMA StepInv == Inv /\ [Next]_vars => Inv'
<1> SUFFICES ASSUME Inv, [Next]_vars PROVE Inv'  OBVIOUS
<1>1. ASSUME NEW l \in Lines, NEW white \in BOOLEAN, ParseNetblock(l[1], l[2], white)
      PROVE  Inv'
  <2>1. l[1] \in Addr /\ l[2] \in Addr  BY LinesAssumption
  <2>2. QED  BY <1>1, <2>1, ParseKeeps
<1>2. CASE SendBlacklist  BY <1>2, SendKeeps
<1>3. ASSUME NEW addr \in Addr, NEW stray \in Stray, Sweep(addr, stray) PROVE Inv'
  BY <1>3, SweepKeeps
<1>4. CASE Configure
  <2>1. UNCHANGED <<b, w, addrs, nb, nw, odd, todo, bs, ws, state, bstart, cl, strayed>>
        /\ stage = "sweep" /\ stage' = "sent"
    BY <1>4 DEF Configure, entries, sweep
  <2>2. Typed' /\ Rest' /\ RangesApart' /\ Behind' /\ Agreed' /\ InOrder'
    BY <2>1 DEF Inv, Typed, Rest, RangesApart, Behind, Agreed, InOrder, Reached
  <2>3. UpToDate'
    BY <2>1 DEF Inv, UpToDate, Current, Reached, Swept
  <2>4. SweepExact'
    BY <2>1 DEF Inv, SweepExact, Listed, Swept, InRanges
  <2>5. QED  BY <2>2, <2>3, <2>4 DEF Inv
<1>5. CASE UNCHANGED vars
  <2>1. UNCHANGED <<b, w, addrs, nb, nw, odd, todo, bs, ws, state, bstart, cl, strayed, stage>>
    BY <1>5 DEF vars, entries, sweep
  <2>2. Typed' /\ Rest' /\ RangesApart' /\ Behind' /\ Agreed' /\ InOrder'
    BY <2>1 DEF Inv, Typed, Rest, RangesApart, Behind, Agreed, InOrder, Reached
  <2>3. UpToDate'
    BY <2>1 DEF Inv, UpToDate, Current, Reached, Swept
  <2>4. SweepExact'
    BY <2>1 DEF Inv, SweepExact, Listed, Swept, InRanges
  <2>5. QED  BY <2>2, <2>3, <2>4 DEF Inv
<1>6. QED  BY <1>1, <1>2, <1>3, <1>4, <1>5 DEF Next

(* LEMMA: the invariant of the specification.                              *)
LEMMA Invariant == Spec => []Inv
<1>1. QED  BY InitInv, StepInv, PTL DEF Spec

-----------------------------------------------------------------------------
(* THEOREM: at each address it has come to, collapse_blacklist has made    *)
(* ranges of exactly the addresses that a blacklist has and no whitelist,  *)
(* unless a line was back to front or ended at the last address, or what   *)
(* lies behind the array was counted.                                      *)
THEOREM SweepIsExact == Spec => []SweepExact
<1>1. Inv => SweepExact  BY DEF Inv
<1>2. QED  BY <1>1, Invariant, PTL

(* THEOREM: "nonoverlapping": whatever the lines, the ranges of            *)
(* collapse_blacklist are not empty, in order, and do not touch.           *)
THEOREM RangesStayApart == Spec => []RangesApart
<1>1. Inv => RangesApart  BY DEF Inv
<1>2. QED  BY <1>1, Invariant, PTL

-----------------------------------------------------------------------------
(* Numbers.                                                                *)

(* LEMMA: a set of numbers has a least element.                            *)
LEMMA LeastExists ==
  ASSUME NEW S, S \subseteq Nat, S # {}
  PROVE  \E x \in S : \A y \in S : x <= y
<1>1. IsWellFoundedOn(OpToRel(<, Nat), Nat)  BY NatLessThanWellFounded
<1>2. PICK x \in S : \A y \in S : ~(<<y, x>> \in OpToRel(<, Nat))
  BY <1>1, WFMin
<1>3. ASSUME NEW y \in S PROVE x <= y
  <2>1. x \in Nat /\ y \in Nat /\ <<y, x>> \in Nat \X Nat  OBVIOUS
  <2>2. ~(<<y, x>>[1] < <<y, x>>[2])  BY <1>2, <2>1 DEF OpToRel
  <2>3. QED  BY <2>1, <2>2
<1>4. QED  BY <1>3

(* LEMMA: what Min chooses.                                                *)
LEMMA MinOf ==
  ASSUME NEW S, S \subseteq Nat, S # {}
  PROVE  Min(S) \in S /\ \A y \in S : Min(S) <= y
BY LeastExists DEF Min

(* LEMMA: a power of two is one more doubling.                             *)
LEMMA PowerDouble ==
  ASSUME NEW k \in Nat
  PROVE  2 ^ k \in Nat /\ 2 ^ (k + 1) = 2 * 2 ^ k
<1> DEFINE S == 1 .. k
           T == 1 .. k + 1
           with == {x \cup {k + 1} : x \in SUBSET S}
           f == [x \in SUBSET S |-> x \cup {k + 1}]
<1>1. /\ IsFiniteSet(S) /\ Cardinality(S) = k /\ IsFiniteSet(T) /\ Cardinality(T) = k + 1
  BY FS_Interval
<1>2. /\ IsFiniteSet(SUBSET S) /\ Cardinality(SUBSET S) = 2 ^ k
      /\ Cardinality(SUBSET T) = 2 ^ (k + 1)
  BY <1>1, FS_SUBSET
<1>3. S \subseteq T /\ T = S \cup {k + 1} /\ k + 1 \notin S  OBVIOUS
<1> HIDE DEF S, T
<1>4. SUBSET T = (SUBSET S) \cup with /\ (SUBSET S) \cap with = {}
  <2>1. ASSUME NEW x \in SUBSET T PROVE x \in (SUBSET S) \cup with
    <3>1. CASE k + 1 \in x
      <4>1. x \ {k + 1} \in SUBSET S /\ x = (x \ {k + 1}) \cup {k + 1}  BY <1>3, <3>1
      <4>2. QED  BY <4>1
    <3>2. CASE k + 1 \notin x  BY <1>3, <3>2
    <3>3. QED  BY <3>1, <3>2
  <2>2. QED  BY <1>3, <2>1
<1>5. IsFiniteSet(with) /\ Cardinality(with) = 2 ^ k
  <2>1. f \in Bijection(SUBSET S, with)
    <3>1. f \in [SUBSET S -> with]  OBVIOUS
    <3>2. \A x, y \in SUBSET S : f[x] = f[y] => x = y
      <4> SUFFICES ASSUME NEW x \in SUBSET S, NEW y \in SUBSET S, f[x] = f[y] PROVE x = y
        OBVIOUS
      <4>1. x \cup {k + 1} = y \cup {k + 1}  OBVIOUS
      <4>2. QED  BY <1>3, <4>1
    <3>3. \A z \in with : \E x \in SUBSET S : f[x] = z  OBVIOUS
    <3> HIDE DEF f, with
    <3>4. QED  BY <3>1, <3>2, <3>3 DEF Bijection, Injection, Surjection, IsInjective
  <2>2. QED  BY <1>2, <2>1, FS_Bijection DEF ExistsBijection
<1>6. Cardinality(SUBSET T) = 2 ^ k + 2 ^ k - Cardinality({})
  BY <1>2, <1>4, <1>5, FS_Union
<1>7. Cardinality({}) = 0 /\ 2 ^ k \in Nat  BY <1>2, FS_EmptySet, FS_CardinalityType
<1>8. QED  BY <1>2, <1>6, <1>7

-----------------------------------------------------------------------------
(* LEMMA: division with rest.                                              *)
LEMMA Division ==
  ASSUME NEW a \in Nat, NEW s \in Nat, s > 0
  PROVE  a \div s \in Nat /\ a % s \in 0 .. s - 1 /\ a = s * (a \div s) + (a % s)
OBVIOUS

(* LEMMA: two multiples are at least one apart.                            *)
LEMMA Gap ==
  ASSUME NEW s \in Nat, s > 0, NEW p \in Nat, NEW q \in Nat, s * p < s * q
  PROVE  p < q /\ s * p + s <= s * q
<1>1. p < q
  <2> SUFFICES ASSUME q <= p PROVE FALSE  OBVIOUS
  <2>1. p - q \in Nat /\ s * (p - q) >= 0  OBVIOUS
  <2>2. s * p = s * q + s * (p - q)  BY <2>1
  <2>3. s * p \in Nat /\ s * q \in Nat  OBVIOUS
  <2>4. QED  BY <2>1, <2>2, <2>3
<1>2. q - p - 1 \in Nat /\ s * (q - p - 1) >= 0  BY <1>1
<1>3. s * q = s * p + s + s * (q - p - 1)  BY <1>2
<1>4. s * p \in Nat /\ s * q \in Nat  OBVIOUS
<1>5. QED  BY <1>1, <1>2, <1>3, <1>4

IsMultiple(a, s) == \E q \in Nat : a = s * q

(* LEMMA: the same of the multiples themselves.                            *)
LEMMA MultiplesApart ==
  ASSUME NEW s \in Nat, s > 0, NEW x \in Nat, NEW y \in Nat,
         IsMultiple(x, s), IsMultiple(y, s), x < y
  PROVE  x + s <= y
<1>1. PICK p \in Nat : x = s * p  BY DEF IsMultiple
<1>2. PICK q \in Nat : y = s * q  BY DEF IsMultiple
<1>3. QED  BY <1>1, <1>2, Gap

Down(a, s) == a - (a % s)

(* LEMMA: the last multiple of s up to a, and the only one less than s     *)
(* before it.                                                              *)
LEMMA DownTo ==
  ASSUME NEW a \in Nat, NEW s \in Nat, s > 0
  PROVE  LET d == Down(a, s) IN
         /\ d \in Nat /\ IsMultiple(d, s) /\ d <= a /\ a < d + s
         /\ \A x \in Nat : IsMultiple(x, s) /\ x <= a /\ a < x + s => x = d
<1> DEFINE d == Down(a, s)
<1>1. a \div s \in Nat /\ a % s \in 0 .. s - 1 /\ a = s * (a \div s) + (a % s)
  BY Division
<1>2. s * (a \div s) \in Nat  BY <1>1
<1>3. d = s * (a \div s)  BY <1>1, <1>2 DEF Down
<1>4. d \in Nat /\ IsMultiple(d, s) /\ d <= a /\ a < d + s
  <2>1. IsMultiple(d, s)  BY <1>1, <1>3 DEF IsMultiple
  <2>2. QED  BY <1>1, <1>2, <1>3, <2>1
<1> HIDE DEF d
<1>5. ASSUME NEW x \in Nat, IsMultiple(x, s), x <= a, a < x + s PROVE x = d
  <2>1. ~(x < d)  BY <1>4, <1>5, MultiplesApart
  <2>2. ~(d < x)  BY <1>4, <1>5, MultiplesApart
  <2>3. QED  BY <1>4, <2>1, <2>2
<1>6. QED  BY <1>4, <1>5 DEF d

(* LEMMA: multiples of a multiple.                                         *)
LEMMA MultipleOfMultiple ==
  ASSUME NEW s \in Nat, NEW t \in Nat, NEW a \in Nat, IsMultiple(t, s), IsMultiple(a, t)
  PROVE  IsMultiple(a, s)
<1>1. PICK c \in Nat : t = s * c  BY DEF IsMultiple
<1>2. PICK q \in Nat : a = t * q  BY DEF IsMultiple
<1>3. c * q \in Nat /\ a = s * (c * q)  BY <1>1, <1>2
<1>4. QED  BY <1>3 DEF IsMultiple

(* LEMMA: what a finer division does not tell apart a coarser one does not.*)
LEMMA CoarserIsBlinder ==
  ASSUME NEW s \in Nat, s > 0, NEW t \in Nat, t > 0, IsMultiple(t, s),
         NEW a \in Nat, NEW c \in Nat, Down(a, s) = Down(c, s)
  PROVE  Down(a, t) = Down(c, t)
<1> DEFINE d == Down(a, s)
           p == Down(a, t)
<1>1. d \in Nat /\ IsMultiple(d, s) /\ d <= a /\ a < d + s  BY DownTo
<1>2. d <= c /\ c < d + s  BY DownTo
<1>3. p \in Nat /\ IsMultiple(p, t) /\ p <= a /\ a < p + t  BY DownTo
<1> HIDE DEF d, p
<1>4. IsMultiple(p, s)  BY <1>3, MultipleOfMultiple
<1>5. p <= d
  <2>1. d < p => d + s <= p  BY <1>1, <1>3, <1>4, MultiplesApart
  <2>2. QED  BY <1>1, <1>3, <2>1
<1>6. p + t \in Nat /\ IsMultiple(p + t, s)
  <2>1. PICK q \in Nat : p = s * q  BY <1>4 DEF IsMultiple
  <2>2. PICK r \in Nat : t = s * r  BY DEF IsMultiple
  <2>3. q + r \in Nat /\ p + t = s * (q + r)  BY <2>1, <2>2
  <2>4. QED  BY <1>3, <2>3 DEF IsMultiple
<1>7. d + s <= p + t
  <2>1. d < p + t  BY <1>1, <1>3
  <2>2. QED  BY <1>1, <1>6, <2>1, MultiplesApart
<1>8. p <= c /\ c < p + t  BY <1>1, <1>2, <1>3, <1>5, <1>7
<1>9. p = Down(c, t)  BY <1>3, <1>8, DownTo
<1>10. QED  BY <1>9 DEF p

-----------------------------------------------------------------------------
(* Sizes of netblocks.                                                     *)

(* LEMMA: sizes are powers of two, from 1 to all addresses.                *)
LEMMA Sizes ==
  /\ Size(W) = 1 /\ Size(0) = Top + 1
  /\ \A n \in 0 .. W : Size(n) \in Nat /\ Size(n) > 0
  /\ \A n \in 0 .. W : n < W => Size(n) = 2 * Size(n + 1)
<1>1. W \in Nat /\ Top \in Nat  BY WidthAssumption
<1>2. Size(W) = 1 /\ Size(0) = Top + 1
  <2>1. 2 ^ 0 = 1  OBVIOUS
  <2>2. W - W = 0 /\ W - 0 = W  BY <1>1
  <2>3. 2 ^ W \in Nat  BY <1>1, PowerDouble
  <2>4. Size(W) = 2 ^ 0 /\ Size(0) = 2 ^ W  BY <2>2 DEF Size
  <2>5. Top + 1 = 2 ^ W  BY <2>3 DEF Top
  <2>6. QED  BY <2>1, <2>4, <2>5
<1>3. ASSUME NEW n \in 0 .. W, n < W PROVE Size(n) = 2 * Size(n + 1)
  <2>1. W - (n + 1) \in Nat /\ (W - (n + 1)) + 1 = W - n  BY <1>1, <1>3
  <2>2. QED  BY <2>1, PowerDouble DEF Size
<1>4. \A n \in 0 .. W : Size(n) \in Nat
  <2> SUFFICES ASSUME NEW n \in 0 .. W PROVE Size(n) \in Nat  OBVIOUS
  <2>1. W - n \in Nat  BY <1>1
  <2>2. QED  BY <2>1, PowerDouble DEF Size
<1>5. \A n \in 0 .. W : Size(n) > 0
  <2> DEFINE bad == {k \in 0 .. W : ~(Size(W - k) > 0)}
  <2>1. bad = {}
    <3> SUFFICES ASSUME bad # {} PROVE FALSE  OBVIOUS
    <3>1. bad \subseteq Nat  BY <1>1
    <3>2. PICK k \in bad : \A x \in bad : k <= x  BY <3>1, LeastExists
    <3>3. k \in 0 .. W /\ ~(Size(W - k) > 0)  OBVIOUS
    <3>4. k # 0
      <4>1. W - 0 = W  BY <1>1
      <4>2. QED  BY <1>2, <3>3, <4>1
    <3>5. k - 1 \in 0 .. W /\ ~(k <= k - 1)  BY <1>1, <3>3, <3>4
    <3>6. Size(W - (k - 1)) > 0  BY <3>2, <3>5
    <3>7. W - k \in 0 .. W /\ W - k < W /\ (W - k) + 1 = W - (k - 1) /\ W - (k - 1) \in 0 .. W
      BY <1>1, <3>3, <3>4
    <3>8. Size(W - k) = 2 * Size(W - (k - 1))  BY <1>3, <3>7
    <3>9. QED  BY <1>4, <3>3, <3>6, <3>7, <3>8
  <2> SUFFICES ASSUME NEW n \in 0 .. W PROVE Size(n) > 0  OBVIOUS
  <2>2. W - n \in 0 .. W /\ W - (W - n) = n  BY <1>1
  <2>3. QED  BY <2>1, <2>2
<1>6. QED  BY <1>2, <1>3, <1>4, <1>5

(* LEMMA: a larger size is a multiple of a smaller one.                    *)
LEMMA SizesNest ==
  ASSUME NEW m \in 0 .. W, NEW n \in 0 .. W, m <= n
  PROVE  IsMultiple(Size(m), Size(n))
<1>1. W \in Nat  BY WidthAssumption
<1> DEFINE bad == {k \in 0 .. n : ~IsMultiple(Size(n - k), Size(n))}
<1>2. bad = {}
  <2> SUFFICES ASSUME bad # {} PROVE FALSE  OBVIOUS
  <2>1. bad \subseteq Nat  BY <1>1
  <2>2. PICK k \in bad : \A x \in bad : k <= x  BY <2>1, LeastExists
  <2>3. k \in 0 .. n /\ ~IsMultiple(Size(n - k), Size(n))  OBVIOUS
  <2>4. k # 0
    <3>1. n - 0 = n /\ Size(n) \in Nat  BY Sizes
    <3>2. Size(n) = Size(n) * 1  BY <3>1
    <3>3. QED  BY <2>3, <3>1, <3>2 DEF IsMultiple
  <2>5. k - 1 \in 0 .. n /\ ~(k <= k - 1)  BY <1>1, <2>3, <2>4
  <2>6. PICK q \in Nat : Size(n - (k - 1)) = Size(n) * q  BY <2>2, <2>5 DEF IsMultiple
  <2>7. n - k \in 0 .. W /\ n - k < W /\ (n - k) + 1 = n - (k - 1)  BY <1>1, <2>3, <2>4
  <2>8. Size(n - k) = 2 * Size(n - (k - 1))  BY <2>7, Sizes
  <2>9. 2 * q \in Nat /\ Size(n - k) = Size(n) * (2 * q)  BY <2>6, <2>8, Sizes
  <2>10. QED  BY <2>3, <2>9 DEF IsMultiple
<1>3. n - m \in 0 .. n /\ n - (n - m) = m  BY <1>1
<1>4. QED  BY <1>2, <1>3

-----------------------------------------------------------------------------
(* The size of the next netblock.                                          *)

(* LEMMA: what Masked keeps of an address.                                 *)
LEMMA MaskedIs ==
  ASSUME NEW a \in Nat, NEW n \in 0 .. W
  PROVE  /\ Masked(a, n) = Down(a, Size(n))
         /\ Masked(a, n) \in Nat /\ IsMultiple(Masked(a, n), Size(n))
         /\ Masked(a, n) <= a /\ a < Masked(a, n) + Size(n)
         /\ Masked(a, n) = a <=> IsMultiple(a, Size(n))
<1>1. Size(n) \in Nat /\ Size(n) > 0  BY Sizes
<1>2. Masked(a, n) = Down(a, Size(n))  BY DEF Masked, Size, Down
<1>3. /\ Masked(a, n) \in Nat /\ IsMultiple(Masked(a, n), Size(n))
      /\ Masked(a, n) <= a /\ a < Masked(a, n) + Size(n)
      /\ \A x \in Nat : IsMultiple(x, Size(n)) /\ x <= a /\ a < x + Size(n)
                          => x = Masked(a, n)
  BY <1>1, <1>2, DownTo
<1>4. a <= a /\ a < a + Size(n)  BY <1>1
<1>5. QED  BY <1>2, <1>3, <1>4

(* LEMMA: maxblock: the fewest bits of a netblock that begins at a.        *)
LEMMA MaxBlockIs ==
  ASSUME NEW a \in Nat
  PROVE  /\ MaxBlock(a) \in 0 .. W /\ IsMultiple(a, Size(MaxBlock(a)))
         /\ \A n \in 0 .. W : IsMultiple(a, Size(n)) => MaxBlock(a) <= n
<1> DEFINE S == {n \in 0 .. W : Masked(a, n) = a}
<1>1. W \in Nat  BY WidthAssumption
<1>2. W \in S
  <2>1. IsMultiple(a, Size(W))
    <3>1. Size(W) = 1 /\ a = 1 * a  BY Sizes
    <3>2. QED  BY <3>1 DEF IsMultiple
  <2>2. QED  BY <1>1, <2>1, MaskedIs
<1>3. S \subseteq Nat /\ MaxBlock(a) = Min(S)  BY <1>1 DEF MaxBlock
<1>4. MaxBlock(a) \in S /\ \A n \in S : MaxBlock(a) <= n
  <2> HIDE DEF S
  <2>1. QED  BY <1>2, <1>3, MinOf
<1>5. \A n \in 0 .. W : n \in S <=> IsMultiple(a, Size(n))  BY MaskedIs
<1>6. MaxBlock(a) \in 0 .. W  BY <1>4
<1> HIDE DEF S
<1>7. QED  BY <1>4, <1>5, <1>6

(* LEMMA: maxdiff: the fewest bits in which a and the address after last   *)
(* differ.                                                                 *)
LEMMA MaxDiffIs ==
  ASSUME NEW a \in Nat, NEW last \in Addr, last # Top
  PROVE  LET k == MaxDiff(a, last) IN
         /\ k \in 0 .. W
         /\ k # W => Masked(a, k) # Masked(last + 1, k)
         /\ \A n \in 0 .. W : n < k => Masked(a, n) = Masked(last + 1, n)
<1> DEFINE S == {n \in 0 .. W - 1 : Masked(a, n) # Masked(last + 1, n)}
           k == MaxDiff(a, last)
<1>1. W \in Nat  BY WidthAssumption
<1>2. k = Min(S \cup {W})  BY AfterInside DEF MaxDiff
<1>3. S \cup {W} \subseteq Nat  BY <1>1
<1>4. k \in S \cup {W} /\ \A n \in S \cup {W} : k <= n
  <2> HIDE DEF S, k
  <2>1. QED  BY <1>2, <1>3, MinOf
<1>5. k \in 0 .. W  BY <1>1, <1>4
<1>6. k # W => Masked(a, k) # Masked(last + 1, k)  BY <1>4
<1>7. ASSUME NEW n \in 0 .. W, n < k PROVE Masked(a, n) = Masked(last + 1, n)
  <2>1. n \in 0 .. W - 1  BY <1>1, <1>5, <1>7
  <2>2. n \notin S  BY <1>4, <1>5, <1>7, <2>1
  <2>3. QED  BY <2>1, <2>2
<1>8. QED  BY <1>5, <1>6, <1>7

Bits(start, last) == Max({MaxBlock(start), MaxDiff(start, last)})

(* LEMMA: the netblock begins at a start, ends within the range, and no    *)
(* larger netblock does.                                                   *)
LEMMA BitsIs ==
  ASSUME NEW a \in Nat, NEW last \in Addr, last # Top, a <= last
  PROVE  LET k == Bits(a, last) IN
         /\ k \in 0 .. W /\ IsMultiple(a, Size(k))
         /\ a + Size(k) <= last + 1
         /\ \A n \in 0 .. W : n < k /\ IsMultiple(a, Size(n)) => last + 1 < a + Size(n)
<1> DEFINE k == Bits(a, last)
           mb == MaxBlock(a)
           md == MaxDiff(a, last)
           e == last + 1
<1>1. W \in Nat /\ last \in Nat /\ e \in Nat  BY WidthAssumption DEF Addr
<1>2. /\ mb \in 0 .. W /\ IsMultiple(a, Size(mb))
      /\ \A n \in 0 .. W : IsMultiple(a, Size(n)) => mb <= n
  BY MaxBlockIs
<1>3. /\ md \in 0 .. W
      /\ md # W => Masked(a, md) # Masked(e, md)
      /\ \A n \in 0 .. W : n < md => Masked(a, n) = Masked(e, n)
  BY MaxDiffIs
<1> HIDE DEF mb, md
<1>4. k \in {mb, md} /\ mb <= k /\ md <= k
  <2>1. k = Max({mb, md})  BY DEF Bits, mb, md
  <2> HIDE DEF k
  <2>2. \E x \in {mb, md} : \A y \in {mb, md} : x >= y  BY <1>2, <1>3
  <2>3. k \in {mb, md} /\ \A y \in {mb, md} : k >= y  BY <2>1, <2>2 DEF Max
  <2>4. QED  BY <1>2, <1>3, <2>3
<1> HIDE DEF k
<1>5. k \in 0 .. W  BY <1>2, <1>3, <1>4
<1>6. Size(k) \in Nat /\ Size(k) > 0  BY <1>5, Sizes
<1>7. IsMultiple(a, Size(k))
  <2>1. IsMultiple(Size(mb), Size(k)) /\ Size(mb) \in Nat  BY <1>2, <1>4, <1>5, SizesNest, Sizes
  <2>2. QED  BY <1>2, <1>6, <2>1, MultipleOfMultiple
<1>8. a + Size(k) <= e
  <2>1. CASE md = W
    <3>1. k = W  BY <1>1, <1>3, <1>4, <1>5, <2>1
    <3>2. QED  BY <1>1, <3>1, Sizes
  <2>2. CASE md # W
    <3>1. Masked(a, k) # Masked(e, k)
      <4>1. Size(md) \in Nat /\ Size(md) > 0 /\ IsMultiple(Size(md), Size(k))
        BY <1>3, <1>4, <1>5, SizesNest, Sizes
      <4>2. Masked(a, k) = Masked(e, k) => Masked(a, md) = Masked(e, md)
        <5>1. /\ Masked(a, k) = Down(a, Size(k)) /\ Masked(e, k) = Down(e, Size(k))
              /\ Masked(a, md) = Down(a, Size(md)) /\ Masked(e, md) = Down(e, Size(md))
          BY <1>1, <1>3, <1>5, MaskedIs
        <5> HIDE DEF e
        <5>2. Down(a, Size(k)) = Down(e, Size(k)) => Down(a, Size(md)) = Down(e, Size(md))
          BY <1>1, <1>6, <4>1, CoarserIsBlinder
        <5>3. QED  BY <5>1, <5>2
      <4>3. QED  BY <1>3, <2>2, <4>2
    <3>2. Masked(a, k) = a  BY <1>5, <1>7, MaskedIs
    <3>3. /\ Masked(e, k) \in Nat /\ IsMultiple(Masked(e, k), Size(k))
          /\ Masked(e, k) <= e /\ e < Masked(e, k) + Size(k)
      BY <1>1, <1>5, MaskedIs
    <3>4. ~(Masked(e, k) < a)
      <4>1. Masked(e, k) < a => Masked(e, k) + Size(k) <= a
        BY <1>6, <1>7, <3>3, MultiplesApart
      <4>2. a < e  BY <1>1
      <4>3. QED  BY <1>1, <1>6, <3>3, <4>1, <4>2
    <3>5. a < Masked(e, k)  BY <3>1, <3>2, <3>3, <3>4
    <3>6. a + Size(k) <= Masked(e, k)  BY <1>6, <1>7, <3>3, <3>5, MultiplesApart
    <3>7. QED  BY <1>1, <1>6, <3>3, <3>6
  <2>3. QED  BY <2>1, <2>2
<1>9. ASSUME NEW n \in 0 .. W, n < k, IsMultiple(a, Size(n)) PROVE e < a + Size(n)
  <2>1. mb <= n  BY <1>2, <1>9
  <2>2. n < md  BY <1>2, <1>3, <1>4, <1>9, <2>1
  <2>3. Masked(a, n) = a /\ Masked(a, n) = Masked(e, n)  BY <1>3, <1>9, <2>2, MaskedIs
  <2>4. e < Masked(e, n) + Size(n)  BY <1>1, MaskedIs
  <2>5. QED  BY <2>3, <2>4
<1>10. QED  BY <1>5, <1>7, <1>8, <1>9 DEF k

-----------------------------------------------------------------------------
(* Netblocks.                                                              *)

(* LEMMA: what a netblock is.                                              *)
LEMMA NetblockIs ==
  ASSUME NEW x \in Block
  PROVE  /\ x.addr \in Nat /\ x.bits \in 0 .. W
         /\ Size(x.bits) \in Nat /\ Size(x.bits) > 0
         /\ x \in Netblocks <=> IsMultiple(x.addr, Size(x.bits))
         /\ x.addr \in Addresses(x)
<1>1. x.addr \in Nat /\ x.bits \in 0 .. W  BY WidthAssumption DEF Block, Addr
<1>2. Size(x.bits) \in Nat /\ Size(x.bits) > 0  BY <1>1, Sizes
<1>3. x \in Netblocks <=> IsMultiple(x.addr, Size(x.bits))
  <2> DEFINE a == x.addr
             s == Size(x.bits)
  <2>1. x \in Netblocks <=> a % s = 0  BY DEF Netblocks
  <2>2. a \in Nat /\ s \in Nat /\ s > 0  BY <1>1, <1>2
  <2> HIDE DEF a, s
  <2>3. a \div s \in Nat /\ a % s \in 0 .. s - 1 /\ a = s * (a \div s) + (a % s)
    BY <2>2, Division
  <2>4. a % s = 0 => IsMultiple(a, s)
    <3>1. s * (a \div s) \in Nat  BY <2>2, <2>3
    <3>2. QED  BY <2>3, <3>1 DEF IsMultiple
  <2>5. IsMultiple(a, s) => a % s = 0
    <3>1. a <= a /\ a < a + s  BY <2>2
    <3>2. IsMultiple(a, s) => a = Down(a, s)  BY <2>2, <3>1, DownTo
    <3>3. QED  BY <2>2, <2>3, <3>2 DEF Down
  <2>6. QED  BY <2>1, <2>4, <2>5 DEF a, s
<1>4. x.addr \in Addresses(x)  BY <1>1, <1>2 DEF Addresses
<1>5. QED  BY <1>1, <1>2, <1>3, <1>4

(* LEMMA: netblocks do not overlap but nest.                               *)
LEMMA NetblocksNest ==
  ASSUME NEW x \in Netblocks, NEW y \in Netblocks, x.bits <= y.bits,
         NEW a, a \in Addresses(x), a \in Addresses(y)
  PROVE  /\ Addresses(y) \subseteq Addresses(x)
         /\ x.bits = y.bits => x = y
<1> DEFINE X == Size(x.bits)
           Y == Size(y.bits)
<1>1. x \in Block /\ y \in Block  BY DEF Netblocks
<1>2. /\ x.addr \in Nat /\ X \in Nat /\ X > 0 /\ IsMultiple(x.addr, X)
      /\ y.addr \in Nat /\ Y \in Nat /\ Y > 0 /\ IsMultiple(y.addr, Y)
      /\ x.bits \in 0 .. W /\ y.bits \in 0 .. W
  BY <1>1, NetblockIs
<1>3. a \in Nat /\ x.addr <= a /\ a < x.addr + X /\ y.addr <= a /\ a < y.addr + Y
  BY <1>2 DEF Addresses
<1>4. IsMultiple(X, Y)  BY <1>2, SizesNest
<1> HIDE DEF X, Y
<1>5. IsMultiple(x.addr, Y)  BY <1>2, <1>4, MultipleOfMultiple
<1>6. IsMultiple(x.addr + X, Y)
  <2>1. PICK q \in Nat : x.addr = Y * q  BY <1>5 DEF IsMultiple
  <2>2. PICK r \in Nat : X = Y * r  BY <1>4 DEF IsMultiple
  <2>3. q + r \in Nat /\ x.addr + X = Y * (q + r)  BY <1>2, <2>1, <2>2
  <2>4. QED  BY <2>3 DEF IsMultiple
<1>7. x.addr <= y.addr
  <2>1. y.addr < x.addr => y.addr + Y <= x.addr  BY <1>2, <1>5, MultiplesApart
  <2>2. QED  BY <1>2, <1>3, <2>1
<1>8. y.addr + Y <= x.addr + X
  <2>1. y.addr < x.addr + X  BY <1>2, <1>3
  <2>2. x.addr + X \in Nat  BY <1>2
  <2>3. QED  BY <1>2, <1>6, <2>1, <2>2, MultiplesApart
<1>9. Addresses(y) \subseteq Addresses(x)  BY <1>2, <1>7, <1>8 DEF Addresses, X, Y
<1>10. x.bits = y.bits => x = y
  <2> SUFFICES ASSUME x.bits = y.bits PROVE x = y  OBVIOUS
  <2>1. X = Y  BY DEF X, Y
  <2>2. x.addr = y.addr  BY <1>2, <1>7, <1>8, <2>1
  <2>3. QED  BY <1>1, <2>2 DEF Block
<1>11. QED  BY <1>9, <1>10

-----------------------------------------------------------------------------
(* range2cidrlist, by induction from the end of the range.                 *)

From(f, last) ==
  [start \in Nat |->
    IF start > last THEN <<>>
    ELSE <<[addr |-> start, bits |-> Bits(start, last)]>> \o f[start + Size(Bits(start, last))]]

(* LEMMA: the recursion ends, so there is such a list of each start.       *)
LEMMA FromExists ==
  ASSUME NEW last \in Addr, last # Top
  PROVE  \E f : f = From(f, last)
<1> DEFINE Value(f, a) ==
             IF a > last THEN <<>>
             ELSE <<[addr |-> a, bits |-> Bits(a, last)]>> \o f[a + Size(Bits(a, last))]
           Upto(f, k) == \A a \in Nat : a + k > last => f[a] = Value(f, a)
           bad == {k \in Nat : ~\E f : Upto(f, k)}
<1>1. last \in Nat  BY WidthAssumption DEF Addr
<1>2. bad = {}
  <2> SUFFICES ASSUME bad # {} PROVE FALSE  OBVIOUS
  <2>1. PICK k \in bad : \A j \in bad : k <= j
    <3>1. bad \subseteq Nat  OBVIOUS
    <3> HIDE DEF bad
    <3>2. QED  BY <3>1, LeastExists
  <2>2. k \in Nat /\ ~\E f : Upto(f, k)  OBVIOUS
  <2>3. k # 0
    <3>1. Upto([a \in Nat |-> <<>>], 0)  BY <1>1
    <3>2. QED  BY <2>2, <3>1
  <2>4. k - 1 \in Nat /\ ~(k <= k - 1)  BY <2>2, <2>3
  <2>5. k - 1 \notin bad  BY <2>1, <2>4
  <2>6. PICK f : Upto(f, k - 1)  BY <2>4, <2>5
  <2> DEFINE g == [a \in Nat |-> IF a + k = last + 1 THEN Value(f, a) ELSE f[a]]
  <2>7. Upto(g, k)
    <3> SUFFICES ASSUME NEW a \in Nat, a + k > last PROVE g[a] = Value(g, a)  OBVIOUS
    <3>1. g[a] = Value(f, a)
      <4>1. CASE a + k = last + 1  BY <4>1
      <4>2. CASE a + k # last + 1
        <5>1. a + (k - 1) > last  BY <1>1, <2>2, <4>2
        <5>2. f[a] = Value(f, a)  BY <2>6, <5>1
        <5>3. QED  BY <4>2, <5>2
      <4>3. QED  BY <4>1, <4>2
    <3>2. Value(f, a) = Value(g, a)
      <4>1. CASE a > last  BY <4>1
      <4>2. CASE ~(a > last)
        <5> DEFINE next == a + Size(Bits(a, last))
        <5>1. Bits(a, last) \in 0 .. W  BY <1>1, <4>2, BitsIs
        <5>2. Size(Bits(a, last)) \in Nat /\ Size(Bits(a, last)) > 0  BY <5>1, Sizes
        <5>3. next \in Nat /\ next > a  BY <5>2
        <5> HIDE DEF next
        <5>4. next + k # last + 1  BY <1>1, <2>2, <5>3
        <5>5. g[next] = f[next]  BY <5>3, <5>4
        <5>6. QED  BY <4>2, <5>5 DEF next
      <4>3. QED  BY <4>1, <4>2
    <3>3. QED  BY <3>1, <3>2
  <2> HIDE DEF g
  <2>8. QED  BY <2>2, <2>7
<1>3. last + 1 \in Nat  BY <1>1
<1>4. PICK f : Upto(f, last + 1)  BY <1>2, <1>3
<1> DEFINE g == [a \in Nat |-> f[a]]
<1>5. ASSUME NEW a \in Nat PROVE g[a] = Value(g, a)
  <2>1. a + (last + 1) > last  BY <1>1
  <2>2. g[a] = Value(f, a)  BY <1>4, <2>1
  <2>3. CASE a > last  BY <2>2, <2>3
  <2>4. CASE ~(a > last)
    <3> DEFINE next == a + Size(Bits(a, last))
    <3>1. Bits(a, last) \in 0 .. W  BY <1>1, <2>4, BitsIs
    <3>2. next \in Nat  BY <3>1, Sizes
    <3> HIDE DEF next
    <3>3. g[next] = f[next]  BY <3>2
    <3>4. QED  BY <2>2, <2>4, <3>3 DEF next
  <2>5. QED  BY <2>3, <2>4
<1>6. g = [a \in Nat |-> Value(g, a)]  BY <1>5
<1>7. g = From(g, last)
  <2> HIDE DEF g
  <2>1. QED  BY <1>6 DEF From
<1>8. QED  BY <1>7

Inside(first, last) == {x \in Netblocks : Addresses(x) \subseteq first .. last}
Largest(first, last) ==
  {x \in Inside(first, last) :
    ~\E y \in Inside(first, last) : y.bits < x.bits /\ Addresses(x) \subseteq Addresses(y)}

(* No netblock of the range lies across a.                                 *)
Clean(a, first, last) ==
  \A y \in Inside(first, last) : ~(y.addr < a /\ a <= y.addr + Size(y.bits) - 1)

(* LEMMA: the next netblock, what it is among those of the range, and that *)
(* the rest of the range can go on from its end.                           *)
LEMMA NextBlock ==
  ASSUME NEW first \in Nat, NEW last \in Addr, last # Top,
         NEW a \in Nat, first <= a, a <= last, Clean(a, first, last)
  PROVE  LET x == [addr |-> a, bits |-> Bits(a, last)]
             next == a + Size(Bits(a, last))
         IN
         /\ x \in Block /\ next \in Nat /\ a < next /\ next <= last + 1
         /\ Addresses(x) = a .. next - 1
         /\ x \in Largest(first, last)
         /\ \A z \in Largest(first, last) : z.addr >= a => z = x \/ z.addr >= next
         /\ Clean(next, first, last)
<1> DEFINE k == Bits(a, last)
           x == [addr |-> a, bits |-> k]
           next == a + Size(k)
<1>1. W \in Nat /\ Top \in Nat /\ last \in Nat /\ last < Top /\ Addr = 0 .. Top
  BY WidthAssumption DEF Addr
<1>2. /\ k \in 0 .. W /\ IsMultiple(a, Size(k)) /\ next <= last + 1
      /\ \A n \in 0 .. W : n < k /\ IsMultiple(a, Size(n)) => last + 1 < a + Size(n)
  BY BitsIs
<1> HIDE DEF k
<1>3. Size(k) \in Nat /\ Size(k) > 0  BY <1>2, Sizes
<1>4. next \in Nat /\ a < next  BY <1>3
<1>5. x \in Block /\ x.addr = a /\ x.bits = k  BY <1>1, <1>2 DEF Block
<1> HIDE DEF x
<1>6. Addresses(x) = a .. next - 1
  <2>1. Addresses(x) = x.addr .. x.addr + Size(x.bits) - 1  BY DEF Addresses
  <2>2. Size(x.bits) = Size(k)  BY <1>5
  <2>3. x.addr + Size(x.bits) - 1 = next - 1  BY <1>3, <1>5, <2>2
  <2>4. QED  BY <1>5, <2>1, <2>3
<1>7. x \in Netblocks  BY <1>2, <1>5, NetblockIs
<1>8. x \in Inside(first, last)
  <2>1. a .. next - 1 \subseteq first .. last  BY <1>1, <1>2, <1>4
  <2>2. QED  BY <1>6, <1>7, <2>1 DEF Inside
<1>9. ASSUME NEW y \in Inside(first, last)
      PROVE  /\ y \in Netblocks /\ y \in Block
             /\ y.addr \in Nat /\ y.bits \in 0 .. W
             /\ Size(y.bits) \in Nat /\ Size(y.bits) > 0 /\ IsMultiple(y.addr, Size(y.bits))
             /\ Addresses(y) = y.addr .. y.addr + Size(y.bits) - 1
             /\ y.addr + Size(y.bits) <= last + 1
  <2>1. y \in Netblocks /\ y \in Block  BY DEF Inside, Netblocks
  <2>2. /\ y.addr \in Nat /\ y.bits \in 0 .. W
        /\ Size(y.bits) \in Nat /\ Size(y.bits) > 0 /\ IsMultiple(y.addr, Size(y.bits))
    BY <2>1, NetblockIs
  <2>3. Addresses(y) = y.addr .. y.addr + Size(y.bits) - 1  BY DEF Addresses
  <2>4. y.addr + Size(y.bits) - 1 \in Addresses(y)  BY <2>2, <2>3
  <2>5. y.addr + Size(y.bits) - 1 \in first .. last  BY <2>4 DEF Inside
  <2>6. QED  BY <1>1, <2>1, <2>2, <2>3, <2>5
(* No larger one holds the address a.                                      *)
<1>10. ASSUME NEW y \in Inside(first, last), y.bits < k, a \in Addresses(y) PROVE FALSE
  <2>1. y.addr <= a /\ a <= y.addr + Size(y.bits) - 1  BY <1>9, <1>10
  <2>2. ~(y.addr < a)  BY <2>1 DEF Clean
  <2>3. y.addr = a  BY <1>9, <2>1, <2>2
  <2>4. last + 1 < a + Size(y.bits)  BY <1>2, <1>9, <1>10, <2>3
  <2>5. a + Size(y.bits) <= last + 1  BY <1>9, <2>3
  <2>6. QED  BY <1>1, <1>9, <2>4, <2>5
<1>11. a \in Addresses(x)  BY <1>4, <1>6
<1>12. x \in Largest(first, last)
  <2> SUFFICES ASSUME NEW y \in Inside(first, last), y.bits < x.bits,
                      Addresses(x) \subseteq Addresses(y)
               PROVE  FALSE
    BY <1>8 DEF Largest
  <2>1. QED  BY <1>5, <1>10, <1>11
<1>13. ASSUME NEW z \in Largest(first, last), z.addr >= a, z.addr < next PROVE z = x
  <2>1. z \in Inside(first, last)  BY DEF Largest
  <2>2. z.addr \in Addresses(z) /\ z.addr \in Addresses(x)
    BY <1>4, <1>6, <1>9, <1>13, <2>1
  <2>3. CASE z.bits < k
    <3>1. z \in Netblocks /\ z.bits <= x.bits  BY <1>2, <1>5, <1>9, <2>1, <2>3
    <3>2. Addresses(x) \subseteq Addresses(z)  BY <1>7, <2>2, <3>1, NetblocksNest
    <3>3. QED  BY <1>10, <1>11, <2>1, <2>3, <3>2
  <2>4. CASE z.bits = k
    BY <1>2, <1>5, <1>7, <1>9, <2>1, <2>2, <2>4, NetblocksNest
  <2>5. CASE z.bits > k
    <3>1. z \in Netblocks /\ x.bits <= z.bits  BY <1>2, <1>5, <1>9, <2>1, <2>5
    <3>2. Addresses(z) \subseteq Addresses(x)  BY <1>7, <2>2, <3>1, NetblocksNest
    <3>3. QED  BY <1>5, <1>8, <2>5, <3>2 DEF Largest
  <2>6. QED  BY <1>2, <1>9, <2>1, <2>3, <2>4, <2>5
<1>14. Clean(next, first, last)
  <2> SUFFICES ASSUME NEW y \in Inside(first, last), y.addr < next,
                      next <= y.addr + Size(y.bits) - 1
               PROVE  FALSE
    BY DEF Clean
  <2>1. next - 1 \in Addresses(y) /\ next - 1 \in Addresses(x) /\ next \in Addresses(y)
    BY <1>4, <1>6, <1>9
  <2>2. next \notin Addresses(x)  BY <1>4, <1>6
  <2>3. CASE y.bits < k
    <3>1. y \in Netblocks /\ y.bits <= x.bits  BY <1>2, <1>5, <1>9, <2>3
    <3>2. Addresses(x) \subseteq Addresses(y)  BY <1>7, <2>1, <3>1, NetblocksNest
    <3>3. QED  BY <1>10, <1>11, <2>3, <3>2
  <2>4. CASE ~(y.bits < k)
    <3>1. y \in Netblocks /\ x.bits <= y.bits  BY <1>2, <1>5, <1>9, <2>4
    <3>2. Addresses(y) \subseteq Addresses(x)  BY <1>7, <2>1, <3>1, NetblocksNest
    <3>3. QED  BY <2>1, <2>2, <3>2
  <2>5. QED  BY <2>3, <2>4
<1>15. \A z \in Largest(first, last) : z.addr >= a => z = x \/ z.addr >= next
  <2>1. \A z \in Largest(first, last) : z.addr \in Nat  BY <1>9 DEF Largest
  <2>2. QED  BY <1>4, <1>13, <2>1
<1>16. QED  BY <1>2, <1>4, <1>5, <1>6, <1>12, <1>14, <1>15 DEF x, k

(* LEMMA: what a list that starts with a netblock holds.                   *)
LEMMA ToSetOfCons ==
  ASSUME NEW S, NEW x \in S, NEW s \in Seq(S)
  PROVE  /\ <<x>> \o s \in Seq(S)
         /\ ToSet(<<x>> \o s) = {x} \cup ToSet(s)
<1> DEFINE t == <<x>> \o s
           n == Len(s)
<1>1. <<x>> \in Seq(S) /\ Len(<<x>>) = 1 /\ <<x>>[1] = x /\ n \in Nat  OBVIOUS
<1>2. /\ t \in Seq(S) /\ Len(t) = n + 1
      /\ \A i \in 1 .. n + 1 : t[i] = IF i <= 1 THEN <<x>>[i] ELSE s[i - 1]
  BY <1>1, ConcatProperties
<1> HIDE DEF t
<1>3. t[1] = x /\ \A i \in 1 .. n : t[i + 1] = s[i]
  <2>1. t[1] = x  BY <1>1, <1>2
  <2>2. ASSUME NEW i \in 1 .. n PROVE t[i + 1] = s[i]
    <3>1. i + 1 \in 1 .. n + 1 /\ ~(i + 1 <= 1) /\ (i + 1) - 1 = i  BY <1>1
    <3>2. QED  BY <1>2, <3>1
  <2>3. QED  BY <2>1, <2>2
<1>4. ToSet(t) = {t[i] : i \in 1 .. n + 1} /\ ToSet(s) = {s[i] : i \in 1 .. n}
  <2>1. DOMAIN t = 1 .. n + 1 /\ DOMAIN s = 1 .. n  BY <1>1, <1>2
  <2>2. QED  BY <2>1, Zenon DEF ToSet
<1>5. ASSUME NEW i \in 1 .. n + 1 PROVE t[i] \in {x} \cup {s[j] : j \in 1 .. n}
  <2>1. CASE i = 1  BY <1>3, <2>1
  <2>2. CASE i # 1
    <3>1. i - 1 \in 1 .. n /\ (i - 1) + 1 = i  BY <1>1, <2>2
    <3>2. t[i] = s[i - 1]  BY <1>3, <3>1
    <3>3. QED  BY <3>1, <3>2
  <2>3. QED  BY <2>1, <2>2
<1>6. x \in ToSet(t)
  <2>1. 1 \in 1 .. n + 1  BY <1>1
  <2>2. QED  BY <1>3, <1>4, <2>1
<1>7. ASSUME NEW i \in 1 .. n PROVE s[i] \in ToSet(t)
  <2>1. i + 1 \in 1 .. n + 1  BY <1>1
  <2>2. QED  BY <1>3, <1>4, <2>1
<1>8. QED  BY <1>2, <1>4, <1>5, <1>6, <1>7 DEF t

(* LEMMA: range2cidrlist's list holds the largest netblocks of the range,  *)
(* and they make it up.                                                    *)
LEMMA CidrList ==
  ASSUME NEW first \in Nat, NEW last \in Addr, last # Top, first <= last
  PROVE  LET list == Range2CidrList(first, last) IN
         /\ list \in Seq(Block)
         /\ ToSet(list) = Largest(first, last)
         /\ UNION {Addresses(x) : x \in ToSet(list)} = first .. last
<1>1. W \in Nat /\ last \in Nat  BY WidthAssumption DEF Addr
<1>2. PICK f : f = From(f, last) /\ Range2CidrList(first, last) = f[first]
  <2> DEFINE g == CHOOSE f : f = From(f, last)
  <2>1. g = From(g, last)  BY FromExists
  <2>2. Range2CidrList(first, last) = g[first]  BY DEF Range2CidrList, From, Bits
  <2>3. QED  BY <2>1, <2>2
<1>3. \A a \in Nat :
        f[a] = IF a > last THEN <<>>
               ELSE <<[addr |-> a, bits |-> Bits(a, last)]>> \o f[a + Size(Bits(a, last))]
  BY <1>2 DEF From
<1> DEFINE Rest1(a) == {x \in Largest(first, last) : x.addr >= a}
           Good(a) == /\ f[a] \in Seq(Block)
                      /\ ToSet(f[a]) = Rest1(a)
                      /\ UNION {Addresses(x) : x \in ToSet(f[a])} = a .. last
           Claim(a) == Clean(a, first, last) => Good(a)
           bad == {k \in 0 .. last + 1 - first : ~Claim(last + 1 - k)}
<1>4. \A x \in Largest(first, last) :
        x.addr \in Nat /\ x.addr \in Addresses(x) /\ x.addr \in first .. last
  BY NetblockIs DEF Largest, Inside, Netblocks
<1>5. Claim(last + 1)
  <2>1. f[last + 1] = <<>>
    <3>1. last + 1 \in Nat /\ last + 1 > last  BY <1>1
    <3>2. QED  BY <1>3, <3>1, Zenon
  <2>2. Rest1(last + 1) = {}  BY <1>1, <1>4
  <2>3. last + 1 .. last = {}  BY <1>1
  <2>4. ToSet(<<>>) = {} /\ <<>> \in Seq(Block)  BY DEF ToSet
  <2>5. QED  BY <2>1, <2>2, <2>3, <2>4
<1>6. ASSUME NEW a \in first .. last, \A c \in first .. last + 1 : c > a => Claim(c)
      PROVE  Claim(a)
  <2> SUFFICES ASSUME Clean(a, first, last) PROVE Good(a)  OBVIOUS
  <2> DEFINE x == [addr |-> a, bits |-> Bits(a, last)]
             next == a + Size(Bits(a, last))
  <2>1. a \in Nat /\ first <= a /\ a <= last  BY <1>1
  <2>2. /\ x \in Block /\ next \in Nat /\ a < next /\ next <= last + 1
        /\ Addresses(x) = a .. next - 1
        /\ x \in Largest(first, last)
        /\ \A z \in Largest(first, last) : z.addr >= a => z = x \/ z.addr >= next
        /\ Clean(next, first, last)
    BY <2>1, NextBlock
  <2>3. f[a] = <<x>> \o f[next]
    <3>1. a \in Nat /\ ~(a > last)  BY <1>1, <2>1
    <3>2. QED  BY <1>3, <3>1, Zenon
  <2>4. x.addr = a  OBVIOUS
  <2> HIDE DEF x, next
  <2>5. next \in first .. last + 1 /\ next > a  BY <1>1, <2>1, <2>2
  <2>6. Good(next)  BY <1>6, <2>2, <2>5
  <2>7. f[a] \in Seq(Block) /\ ToSet(f[a]) = {x} \cup ToSet(f[next])
    BY <2>2, <2>3, <2>6, ToSetOfCons
  <2>8. Rest1(a) = {x} \cup Rest1(next)  BY <1>4, <2>1, <2>2, <2>4, <2>5
  <2>9. UNION {Addresses(y) : y \in ToSet(f[a])}
          = Addresses(x) \cup UNION {Addresses(y) : y \in ToSet(f[next])}
    BY <2>7
  <2>10. (a .. next - 1) \cup (next .. last) = a .. last  BY <1>1, <2>1, <2>2
  <2>11. QED  BY <2>2, <2>6, <2>7, <2>8, <2>9, <2>10
<1> HIDE DEF Claim
<1>7. bad = {}
  <2> SUFFICES ASSUME bad # {} PROVE FALSE  OBVIOUS
  <2>1. bad \subseteq Nat  BY <1>1
  <2>2. PICK k \in bad : \A j \in bad : k <= j  BY <2>1, LeastExists
  <2>3. k \in 0 .. last + 1 - first /\ ~Claim(last + 1 - k)  OBVIOUS
  <2>4. k # 0
    <3>1. last + 1 - 0 = last + 1  BY <1>1
    <3>2. QED  BY <1>5, <2>3, <3>1
  <2> DEFINE a == last + 1 - k
  <2>5. a \in first .. last  BY <1>1, <2>3, <2>4
  <2>6. ASSUME NEW c \in first .. last + 1, c > a PROVE Claim(c)
    <3>1. /\ last + 1 - c \in 0 .. last + 1 - first
          /\ last + 1 - (last + 1 - c) = c /\ ~(k <= last + 1 - c)
      BY <1>1, <2>3, <2>6
    <3>2. last + 1 - c \notin bad  BY <2>2, <3>1
    <3>3. QED  BY <3>1, <3>2
  <2>7. Claim(a)  BY <1>6, <2>5, <2>6
  <2>8. QED  BY <2>3, <2>7
<1>8. Claim(first)
  <2>1. /\ last + 1 - first \in 0 .. last + 1 - first
        /\ last + 1 - (last + 1 - first) = first
    BY <1>1
  <2>2. QED  BY <1>7, <2>1
<1>9. Clean(first, first, last)
  <2> SUFFICES ASSUME NEW y \in Inside(first, last), y.addr < first PROVE FALSE
    BY DEF Clean
  <2>1. y \in Block  BY DEF Inside, Netblocks
  <2>2. y.addr \in Addresses(y) /\ y.addr \in Nat  BY <2>1, NetblockIs
  <2>3. y.addr \in first .. last  BY <2>2 DEF Inside
  <2>4. QED  BY <2>2, <2>3
<1>10. Good(first)  BY <1>8, <1>9 DEF Claim
<1>11. Rest1(first) = Largest(first, last)  BY <1>4
<1>12. QED  BY <1>2, <1>10, <1>11

-----------------------------------------------------------------------------
(* What is printed.                                                        *)

(* No line but an odd one covers the last address, so no range but for     *)
(* one of those ends there; what is printed are the ranges' netblocks.     *)
Ends ==
  /\ ~odd => nb[Top] = 0
  /\ \A i \in 1 .. Len(cl) : cl[i][2] # Top
  /\ stage = "sent" =>
       /\ todo = {}
       /\ printed = UNION {Printable(Range2CidrList(r[1], r[2])) : r \in ToSet(cl)}

(* LEMMA: every step keeps it.                                             *)
LEMMA EndsKept == Inv /\ Ends /\ [Next]_vars => Ends'
<1> SUFFICES ASSUME Inv, Ends, [Next]_vars PROVE Ends'  OBVIOUS
<1>1. Typed  BY DEF Inv
<1>2. Top \in Addr  BY AddrIsInterval
<1>3. ASSUME NEW l \in Lines, NEW white \in BOOLEAN, ParseNetblock(l[1], l[2], white)
      PROVE  Ends'
  <2>1. /\ stage' = "parse" /\ cl' = cl /\ odd' = (odd \/ l[1] > l[2] \/ l[2] = Top)
        /\ nb' = nb \/ nb' = Covered(nb, l[1], l[2])
    BY <1>3 DEF ParseNetblock, sweep
  <2>2. l[1] \in Addr /\ l[2] \in Addr  BY LinesAssumption
  <2>3. ~odd' => nb'[Top] = 0
    <3> SUFFICES ASSUME ~odd' PROVE nb'[Top] = 0  OBVIOUS
    <3>1. nb[Top] = 0 /\ l[2] # Top  BY <2>1 DEF Ends
    <3>2. ~Covers(l[1], l[2], Top)
      <4>1. l[2] \in Nat /\ l[2] <= Top /\ Top \in Nat  BY <2>2, AddrIsInterval
      <4>2. QED  BY <3>1, <4>1 DEF Covers
    <3>3. Covered(nb, l[1], l[2])[Top] = nb[Top] + 0  BY <1>2, <3>2 DEF Covered
    <3>4. QED  BY <2>1, <3>1, <3>3
  <2>4. QED  BY <2>1, <2>3 DEF Ends
<1>4. CASE SendBlacklist
  BY <1>4 DEF SendBlacklist, Ends, entries
<1>5. ASSUME NEW addr \in Addr, NEW stray \in Stray, Sweep(addr, stray) PROVE Ends'
  <2>1. /\ stage' = "sweep" /\ UNCHANGED <<odd, nb>>
        /\ cl' = cl \/ cl' = Append(cl, <<bstart, addr - 1>>)
    BY <1>5 DEF Sweep, entries
  <2>2. CASE cl' = cl  BY <2>1, <2>2 DEF Ends
  <2>3. CASE cl' = Append(cl, <<bstart, addr - 1>>)
    <3> DEFINE r == <<bstart, addr - 1>>
    <3>1. r[2] # Top
      <4>1. addr \in Nat /\ addr <= Top /\ Top \in Nat  BY AddrIsInterval
      <4>2. QED  BY <4>1
    <3> HIDE DEF r
    <3>2. cl \in Seq(Addr \X Addr)  BY <1>1 DEF Typed
    <3>3. Len(cl') = Len(cl) + 1 /\ cl'[Len(cl) + 1] = r
          /\ \A i \in 1 .. Len(cl) : cl'[i] = cl[i]
      BY <2>3, <3>2 DEF r
    <3>4. \A i \in 1 .. Len(cl) + 1 : i \in 1 .. Len(cl) \/ i = Len(cl) + 1  BY <3>2
    <3>5. QED  BY <2>1, <3>1, <3>3, <3>4 DEF Ends
  <2>4. QED  BY <2>1, <2>2, <2>3
<1>6. CASE Configure
  BY <1>6 DEF Configure, Ends, entries, sweep
<1>7. CASE UNCHANGED vars
  BY <1>7 DEF vars, entries, sweep, Ends
<1>8. QED  BY <1>3, <1>4, <1>5, <1>6, <1>7 DEF Next

(* LEMMA: it always holds.                                                 *)
LEMMA EndsInvariant == Spec => []Ends
<1>1. Init => Ends
  <2>1. Top \in Addr  BY AddrIsInterval
  <2>2. Init => Len(cl) = 0 /\ nb = [a \in Addr |-> 0] /\ stage = "parse"  BY DEF Init
  <2>3. QED  BY <2>1, <2>2 DEF Ends
<1>2. QED  BY <1>1, EndsKept, Invariant, PTL DEF Spec

(* LEMMA: a range and its netblocks.                                       *)
LEMMA RangeIs ==
  ASSUME Inv, Ends, NEW r \in ToSet(cl)
  PROVE  /\ r[1] \in Nat /\ r[2] \in Addr /\ r[2] # Top /\ r[1] <= r[2]
         /\ Range2CidrList(r[1], r[2]) \in Seq(Block)
         /\ ToSet(Range2CidrList(r[1], r[2])) = Largest(r[1], r[2])
         /\ UNION {Addresses(x) : x \in Largest(r[1], r[2])} = r[1] .. r[2]
<1>1. cl \in Seq(Addr \X Addr)  BY DEF Inv, Typed
<1>2. PICK i \in 1 .. Len(cl) : r = cl[i]  BY <1>1 DEF ToSet
<1>3. r \in Addr \X Addr  BY <1>1, <1>2
<1>4. r[1] <= r[2] /\ r[2] # Top  BY <1>2 DEF Inv, RangesApart, Ends
<1>5. r[1] \in Nat /\ r[2] \in Addr  BY <1>3, AddrIsInterval
<1>6. QED  BY <1>4, <1>5, CidrList

(* THEOREM: each range is cut into as few netblocks as can be.             *)
THEOREM CidrsAreShortest == Spec => []Shortest
<1>1. ASSUME Inv, Ends PROVE Shortest
  <2> SUFFICES ASSUME NEW r \in ToSet(cl)
               PROVE  ToSet(Range2CidrList(r[1], r[2])) = Largest(r[1], r[2])
    BY Zenon DEF Shortest, Largest, Inside
  <2>1. QED  BY <1>1, RangeIs
<1>2. QED  BY <1>1, Invariant, EndsInvariant, PTL

(* THEOREM: what spamd and pf are given is what the lists say, unless a    *)
(* line is odd, memory behind the array was counted, or 0 is listed.       *)
THEOREM BlockedIsListed == Spec => []Exact
<1>1. ASSUME Inv, Ends, stage = "sent", ~odd, ~strayed, 0 \notin Listed
      PROVE  Blocked = Listed
  <2>1. todo = {} /\ Swept = Addr  BY <1>1 DEF Ends, Swept
  <2>2. Listed \subseteq Addr  BY DEF Listed
  <2>3. Listed = InRanges \cup (IF state = 1 THEN {a \in Swept : bstart <= a} ELSE {})
    BY <1>1, <2>1, <2>2 DEF Inv, SweepExact
  <2>4. state # 1
    <3> SUFFICES ASSUME state = 1 PROVE FALSE  OBVIOUS
    <3>a. bstart \in Addr  BY <1>1 DEF Inv, Typed
    <3>1. Top \in Addr /\ bstart <= Top  BY <3>a, AddrIsInterval
    <3>2. Top \in Listed  BY <2>1, <2>3, <3>1
    <3>3. nb[Top] = 0  BY <1>1 DEF Ends
    <3>4. QED  BY <3>2, <3>3 DEF Listed
  <2>5. Listed = InRanges  BY <2>3, <2>4
  <2>6. ASSUME NEW r \in ToSet(cl)
        PROVE  Printable(Range2CidrList(r[1], r[2])) = Largest(r[1], r[2])
    <3> DEFINE list == Range2CidrList(r[1], r[2])
    <3>1. /\ r[1] \in Nat /\ r[2] \in Addr /\ r[1] <= r[2] /\ list \in Seq(Block)
          /\ ToSet(list) = Largest(r[1], r[2])
      BY <1>1, RangeIs
    <3> HIDE DEF list
    <3>2. r[1] # 0
      <4>1. r[1] \in r[1] .. r[2]  BY <3>1, AddrIsInterval
      <4>2. r[1] \in InRanges  BY <4>1 DEF InRanges
      <4>3. QED  BY <1>1, <2>5, <4>2
    <3>3. ASSUME NEW x \in ToSet(list) PROVE x.addr # 0
      <4>1. x \in Inside(r[1], r[2])  BY <3>1 DEF Largest
      <4>2. x \in Block  BY <4>1 DEF Inside, Netblocks
      <4>3. x.addr \in Addresses(x)  BY <4>2, NetblockIs
      <4>4. x.addr \in r[1] .. r[2]  BY <4>1, <4>3 DEF Inside
      <4>5. QED  BY <3>1, <3>2, <4>4
    <3>4. \A k \in DOMAIN list : list[k] \in ToSet(list)  BY DEF ToSet
    <3>5. \A k \in DOMAIN list : list[k].addr # 0  BY <3>3, <3>4
    <3>6. \A j \in DOMAIN list : \A k \in 1 .. j : k \in DOMAIN list
      BY <3>1
    <3>7. {j \in DOMAIN list : \A k \in 1 .. j : list[k].addr # 0} = DOMAIN list
      BY <3>5, <3>6, Zenon
    <3>8. Printable(list) = {list[i] : i \in DOMAIN list}  BY <3>7, Zenon DEF Printable
    <3>9. Printable(list) = ToSet(list)  BY <3>8, Zenon DEF ToSet
    <3>10. QED  BY <3>1, <3>9 DEF list
  <2>7. printed = UNION {Largest(r[1], r[2]) : r \in ToSet(cl)}
    BY <1>1, <2>6 DEF Ends
  <2>8. Blocked = UNION {r[1] .. r[2] : r \in ToSet(cl)}
    <3>1. \A r \in ToSet(cl) : UNION {Addresses(x) : x \in Largest(r[1], r[2])} = r[1] .. r[2]
      BY <1>1, RangeIs
    <3>2. QED  BY <2>7, <3>1 DEF Blocked
  <2>9. QED  BY <2>5, <2>8 DEF InRanges
<1>2. Inv /\ Ends => Exact  BY <1>1 DEF Exact
<1>3. QED  BY <1>2, Invariant, EndsInvariant, PTL

-----------------------------------------------------------------------------
(* How far lines can take the counters and the ranges.                     *)

Shifted(n, first, last) ==
  [a \in Addr |-> n[a] + (IF first <= a THEN 1 ELSE 0) - (IF After(last) <= a THEN 1 ELSE 0)]

(* LEMMA: a line of any kind, back to front or up to the last address,     *)
(* adds one from its first address on and takes one away from its end on.  *)
LEMMA AddAnyLine ==
  ASSUME NEW sum \in [Addr -> Int], NEW n \in [Addr -> Int], NEW es,
         NEW first \in Addr, NEW last \in Addr, Consistent(sum, n, es)
  PROVE  Consistent(Counted(sum, first, last), Shifted(n, first, last),
                    es \cup {first, After(last)})
<1> DEFINE m == Shifted(n, first, last)
           s == Counted(sum, first, last)
           end == After(last)
           more == es \cup {first, end}
<1>1. end \in Addr  BY AfterInside
<1>2. \A a \in Addr : m[a] = n[a] + (IF first <= a THEN 1 ELSE 0) - (IF end <= a THEN 1 ELSE 0)
  BY DEF Shifted
<1>3. \A a \in Addr : s[a] = sum[a] + (IF a = first THEN 1 ELSE 0) - (IF a = end THEN 1 ELSE 0)
  BY DEF Counted
<1> HIDE DEF m, s, end
<1>4. first \in Nat /\ end \in Nat /\ \A a \in Addr : n[a] \in Int /\ sum[a] \in Int
  BY <1>1, AddrIsInterval
<1>5. Steps(s, m)
  <2>1. s[0] = m[0]  BY <1>2, <1>3, <1>4, AddrIsInterval DEF Consistent, Steps
  <2>2. ASSUME NEW a \in Addr, a # 0 PROVE m[a] = m[a - 1] + s[a]
    <3>1. a - 1 \in Addr /\ a \in Nat /\ n[a] = n[a - 1] + sum[a]
      BY <2>2, AddrIsInterval DEF Consistent, Steps
    <3>2. /\ m[a] = n[a] + (IF first <= a THEN 1 ELSE 0) - (IF end <= a THEN 1 ELSE 0)
          /\ m[a - 1] = n[a - 1] + (IF first <= a - 1 THEN 1 ELSE 0) - (IF end <= a - 1 THEN 1 ELSE 0)
          /\ s[a] = sum[a] + (IF a = first THEN 1 ELSE 0) - (IF a = end THEN 1 ELSE 0)
      BY <1>2, <1>3, <3>1
    <3>3. n[a - 1] \in Int /\ sum[a] \in Int  BY <1>4, <3>1
    <3>4. QED  BY <1>4, <3>1, <3>2, <3>3
  <2>3. QED  BY <2>1, <2>2 DEF Steps
<1>6. Flat(m, more)
  <2> SUFFICES ASSUME NEW a \in Addr, NEW c \in Addr, a <= c,
                      \A x \in more : ~(a < x /\ x <= c)
               PROVE  m[a] = m[c]
    BY DEF Flat
  <2>1. n[a] = n[c] /\ a \in Nat /\ c \in Nat  BY AddrIsInterval DEF Consistent, Flat
  <2>2. ~(a < first /\ first <= c) /\ ~(a < end /\ end <= c)  OBVIOUS
  <2>3. QED  BY <1>2, <1>4, <2>1, <2>2
<1>7. Bare(m, more)
  <2> SUFFICES ASSUME NEW a \in Addr, \A x \in more : a < x PROVE m[a] = 0
    BY DEF Bare
  <2>1. n[a] = 0 /\ a \in Nat  BY AddrIsInterval DEF Consistent, Bare
  <2>2. a < first /\ a < end  OBVIOUS
  <2>3. QED  BY <1>2, <1>4, <2>1, <2>2
<1>8. QED  BY <1>5, <1>6, <1>7 DEF Consistent, m, s, end

(* LEMMA: what a step of the sweep adds to a counter.                      *)
LEMMA SweepCounts ==
  ASSUME Typed, InOrder, NEW addr \in todo, \A a \in todo : addr <= a,
         UNCHANGED addrs, todo' = todo \ {addr},
         NEW sum \in [Addr -> Int], NEW n \in [Addr -> Int], NEW count \in Int,
         Consistent(sum, n, addrs),
         Reached = {} => count = 0, \A a \in Addr : Current(a) => n[a] = count
  PROVE  count + sum[addr] = n[addr] /\ \A a \in Addr : Current(a)' => n[a] = n[addr]
<1>1. /\ addr \in Addr /\ addr \in Nat /\ Reached' = Reached \cup {addr}
      /\ \A x \in Reached : x < addr
      /\ addr # 0 => Current(addr - 1)
      /\ addr = 0 => Reached = {}
      /\ addr # 0 => addr - 1 \in Addr
  BY SweepSets, AddrIsInterval
<1>2. count + sum[addr] = n[addr]
  <2>1. n[addr] \in Int /\ sum[addr] \in Int  BY <1>1
  <2>2. CASE addr = 0
    <3>1. count = 0 /\ sum[0] = n[0]  BY <1>1, <2>2 DEF Consistent, Steps
    <3>2. QED  BY <2>1, <2>2, <3>1
  <2>3. CASE addr # 0
    <3>1. n[addr - 1] = count /\ n[addr] = n[addr - 1] + sum[addr]
      BY <1>1, <2>3 DEF Consistent, Steps
    <3>2. QED  BY <2>1, <3>1
  <2>4. QED  BY <2>2, <2>3
<1>3. ASSUME NEW a \in Addr, Current(a)' PROVE n[a] = n[addr]
  <2>1. addr <= a /\ \A t \in todo' : a < t  BY <1>1, <1>3 DEF Current, Swept
  <2>2. \A x \in addrs : ~(addr < x /\ x <= a)
    <3> SUFFICES ASSUME NEW x \in addrs PROVE ~(addr < x /\ x <= a)  OBVIOUS
    <3>1. x \in Nat /\ a \in Nat  BY AddrIsInterval DEF Typed
    <3>2. CASE x \in todo
      <4>1. x = addr \/ x \in todo'  BY <3>2
      <4>2. QED  BY <1>1, <2>1, <3>1, <4>1
    <3>3. CASE x \notin todo
      <4>1. x < addr  BY <1>1, <3>3 DEF Reached
      <4>2. QED  BY <1>1, <3>1, <4>1
    <3>4. QED  BY <3>2, <3>3
  <2>3. QED  BY <1>1, <2>1, <2>2 DEF Consistent, Flat
<1>4. QED  BY <1>2, <1>3

(* Each line moves a counter by one at most; the sweep's counter is that   *)
(* of the address it has come to.                                          *)
Total(sum, count) ==
  /\ \E n \in [Addr -> -lines .. lines] :
       /\ Consistent(sum, n, addrs)
       /\ stage # "parse" /\ ~strayed => \A a \in Addr : Current(a) => n[a] = count
  /\ ~strayed => /\ -lines <= count /\ count <= lines
                 /\ Reached = {} => count = 0
  /\ -lines - 1 <= count /\ count <= lines + 1

(* A range begins where black begins or white ends, and each line has one  *)
(* such end; one that begins with what lies behind the array stays open.   *)
Rises == {a \in Addr : b[a] > 0 \/ w[a] < 0}
Started == Len(cl) + (IF state = 1 /\ ~strayed THEN 1 ELSE 0)
StartsAreRises ==
  /\ Cardinality(Rises) <= lines
  /\ stage # "parse" => Started <= Cardinality(Rises \ todo)
  /\ state = 0 => bs <= 0 \/ ws > 0

Bounds ==
  /\ lines \in 0 .. MaxLines
  /\ {b, w} \subseteq [Addr -> -lines .. lines]
  /\ {nb, nw} \subseteq [Addr -> 0 .. lines]
  /\ strayed \in BOOLEAN /\ stage \in {"parse", "sweep", "sent"}
  /\ stage # "sent" => printed = {}
  /\ Total(b, bs) /\ Total(w, ws) /\ StartsAreRises

(* LEMMA: what Bounds depends on.                                          *)
LEMMA BoundsStutter ==
  ASSUME Bounds, UNCHANGED <<entries, sweep, stage, printed>>
  PROVE  Bounds'
<1>1. UNCHANGED <<b, w, addrs, lines, nb, nw, todo, bs, ws, state, cl, strayed, stage, printed>>
  BY DEF entries, sweep
<1>2. Reached' = Reached /\ \A a : Current(a)' = Current(a)
  BY <1>1 DEF Reached, Current, Swept
<1>3. Total(b, bs)' /\ Total(w, ws)'  BY <1>1, <1>2 DEF Bounds, Total
<1>4. StartsAreRises'
  BY <1>1 DEF Bounds, StartsAreRises, Started, Rises
<1>5. QED  BY <1>1, <1>3, <1>4 DEF Bounds

(* LEMMA: sets of addresses are finite.                                    *)
LEMMA AddrSets ==
  /\ IsFiniteSet(Addr)
  /\ \A S \in SUBSET Addr : IsFiniteSet(S) /\ Cardinality(S) \in Nat
  /\ \A S, T \in SUBSET Addr : S \subseteq T => Cardinality(S) <= Cardinality(T)
  /\ \A S \in SUBSET Addr, x \in Addr :
       Cardinality(S \cup {x}) = Cardinality(S) + (IF x \in S THEN 0 ELSE 1)
<1>1. IsFiniteSet(Addr)  BY FS_Interval, AddrIsInterval DEF Addr
<1>2. \A S \in SUBSET Addr : IsFiniteSet(S) /\ Cardinality(S) \in Nat
  BY <1>1, FS_Subset, FS_CardinalityType
<1>3. \A S, T \in SUBSET Addr : S \subseteq T => Cardinality(S) <= Cardinality(T)
  BY <1>2, FS_Subset
<1>4. ASSUME NEW S \in SUBSET Addr, NEW x \in Addr
      PROVE  Cardinality(S \cup {x}) = Cardinality(S) + (IF x \in S THEN 0 ELSE 1)
  <2>1. IsFiniteSet(S) /\ Cardinality(S) \in Nat  BY <1>2
  <2>2. CASE x \in S
    <3>1. S \cup {x} = S  BY <2>2
    <3>2. QED  BY <2>1, <2>2, <3>1
  <2>3. CASE x \notin S
    <3>1. Cardinality(S \cup {x}) = Cardinality(S) + 1  BY <2>1, <2>3, FS_AddElement
    <3>2. QED  BY <2>3, <3>1
  <2>4. QED  BY <2>2, <2>3
<1>5. QED  BY <1>1, <1>2, <1>3, <1>4

(* LEMMA: reading a line.                                                  *)
LEMMA ParseBounds ==
  ASSUME Inv, Bounds, NEW first \in Addr, NEW last \in Addr, NEW white \in BOOLEAN,
         ParseNetblock(first, last, white)
  PROVE  Bounds'
<1> DEFINE end == After(last)
           more == addrs \cup {first, end}
           range == -lines .. lines
           wider == -(lines + 1) .. lines + 1
<1>1. /\ stage = "parse" /\ stage' = "parse" /\ lines < MaxLines /\ lines' = lines + 1
      /\ addrs' = more /\ printed' = printed
      /\ UNCHANGED <<todo, bs, ws, state, cl, strayed>>
  BY DEF ParseNetblock, sweep
<1>2. IF white THEN /\ w' = Counted(w, first, last) /\ nw' = Covered(nw, first, last)
                    /\ UNCHANGED <<b, nb>>
      ELSE /\ b' = Counted(b, first, last) /\ nb' = Covered(nb, first, last)
           /\ UNCHANGED <<w, nw>>
  BY DEF ParseNetblock
<1>3. lines \in Nat /\ lines <= MaxLines /\ MaxLines \in Nat /\ end \in Addr
  BY LinesAssumption, AfterInside DEF Bounds
<1>4. todo = {} /\ bs = 0 /\ ws = 0 /\ state = 0 /\ cl = <<>> /\ ~strayed
  BY <1>1 DEF Inv, Rest
<1>5. /\ b \in [Addr -> range] /\ w \in [Addr -> range]
      /\ nb \in [Addr -> 0 .. lines] /\ nw \in [Addr -> 0 .. lines]
  BY DEF Bounds
<1>6. range \subseteq wider /\ 0 .. lines \subseteq 0 .. lines + 1  BY <1>3
<1>7. ASSUME NEW sum \in [Addr -> range] PROVE Counted(sum, first, last) \in [Addr -> wider]
  <2>1. ASSUME NEW a \in Addr
        PROVE  sum[a] + (IF a = first THEN 1 ELSE 0) - (IF a = end THEN 1 ELSE 0) \in wider
    <3>1. sum[a] \in range  OBVIOUS
    <3>2. QED  BY <1>3, <3>1
  <2>2. QED  BY <2>1 DEF Counted
<1>8. ASSUME NEW n \in [Addr -> 0 .. lines] PROVE Covered(n, first, last) \in [Addr -> 0 .. lines + 1]
  <2>1. ASSUME NEW a \in Addr
        PROVE  n[a] + (IF Covers(first, last, a) THEN 1 ELSE 0) \in 0 .. lines + 1
    <3>1. n[a] \in 0 .. lines  OBVIOUS
    <3>2. QED  BY <1>3, <3>1
  <2>2. QED  BY <2>1 DEF Covered
<1>9. /\ {b, w}' \subseteq [Addr -> wider] /\ {nb, nw}' \subseteq [Addr -> 0 .. lines + 1]
  <2> HIDE DEF range, wider
  <2>1. b \in [Addr -> wider] /\ w \in [Addr -> wider]  BY <1>5, <1>6
  <2>2. nb \in [Addr -> 0 .. lines + 1] /\ nw \in [Addr -> 0 .. lines + 1]  BY <1>5, <1>6
  <2>3. QED  BY <1>2, <1>5, <1>7, <1>8, <2>1, <2>2
<1>10. ASSUME NEW sum \in [Addr -> range], NEW n \in [Addr -> range], Consistent(sum, n, addrs)
       PROVE  /\ \E m \in [Addr -> wider] : Consistent(sum, m, more)
              /\ \E m \in [Addr -> wider] : Consistent(Counted(sum, first, last), m, more)
  <2>1. n \in [Addr -> wider]  BY <1>6
  <2>2. Consistent(sum, n, more)  BY <1>10, MoreEntries
  <2>3. Shifted(n, first, last) \in [Addr -> wider]
    <3>1. ASSUME NEW a \in Addr
          PROVE  n[a] + (IF first <= a THEN 1 ELSE 0) - (IF end <= a THEN 1 ELSE 0) \in wider
      <4>1. n[a] \in range  OBVIOUS
      <4>2. QED  BY <1>3, <4>1
    <3>2. QED  BY <3>1 DEF Shifted
  <2>4. sum \in [Addr -> Int] /\ n \in [Addr -> Int]  BY <1>3
  <2>5. Consistent(Counted(sum, first, last), Shifted(n, first, last), more)
    BY <1>10, <2>4, AddAnyLine
  <2>6. QED  BY <2>1, <2>2, <2>3, <2>5
<1>11. /\ \E m \in [Addr -> wider] : Consistent(b', m, more)
       /\ \E m \in [Addr -> wider] : Consistent(w', m, more)
  <2>1. PICK n \in [Addr -> range] : Consistent(b, n, addrs)  BY DEF Bounds, Total
  <2>2. PICK m \in [Addr -> range] : Consistent(w, m, addrs)  BY DEF Bounds, Total
  <2> HIDE DEF range, wider, more
  <2>3. QED  BY <1>2, <1>5, <1>10, <2>1, <2>2
<1>12. Total(b, bs)' /\ Total(w, ws)'
  <2>1. wider = -lines' .. lines' /\ stage' = "parse" /\ addrs' = more  BY <1>1
  <2> HIDE DEF wider, more
  <2>2. bs' = 0 /\ ws' = 0 /\ -lines' <= 0 /\ 0 <= lines' /\ -lines' - 1 <= 0 /\ 0 <= lines' + 1
    BY <1>1, <1>3, <1>4
  <2>3. QED  BY <1>11, <2>1, <2>2 DEF Total
<1>13. Cardinality(Rises') <= lines + 1
  <2>1. PICK x \in Addr : Rises' \subseteq Rises \cup {x}
    <3>1. CASE white
      <4>1. b' = b /\ \A a \in Addr : w'[a] = w[a] + (IF a = first THEN 1 ELSE 0)
                                                 - (IF a = end THEN 1 ELSE 0)
        BY <1>2, <3>1 DEF Counted
      <4>2. ASSUME NEW a \in Addr, a # end, w'[a] < 0 PROVE w[a] < 0
        <5>1. w[a] \in Int  BY <1>3, <1>5
        <5>2. w'[a] = w[a] + (IF a = first THEN 1 ELSE 0) - 0  BY <4>1, <4>2
        <5>3. QED  BY <4>2, <5>1, <5>2
      <4>3. Rises' \subseteq Rises \cup {end}  BY <4>1, <4>2 DEF Rises
      <4>4. QED  BY <1>3, <4>3
    <3>2. CASE ~white
      <4>1. w' = w /\ \A a \in Addr : b'[a] = b[a] + (IF a = first THEN 1 ELSE 0)
                                                 - (IF a = end THEN 1 ELSE 0)
        BY <1>2, <3>2 DEF Counted
      <4>2. ASSUME NEW a \in Addr, a # first, b'[a] > 0 PROVE b[a] > 0
        <5>1. b[a] \in Int  BY <1>3, <1>5
        <5>2. b'[a] = b[a] + 0 - (IF a = end THEN 1 ELSE 0)  BY <4>1, <4>2
        <5>3. QED  BY <4>2, <5>1, <5>2
      <4>3. Rises' \subseteq Rises \cup {first}  BY <4>1, <4>2 DEF Rises
      <4>4. QED  BY <4>3
    <3>3. QED  BY <3>1, <3>2
  <2>2. Rises \in SUBSET Addr /\ Rises' \in SUBSET Addr /\ Rises \cup {x} \in SUBSET Addr
    BY DEF Rises
  <2>3. Cardinality(Rises') <= Cardinality(Rises \cup {x})  BY <2>1, <2>2, AddrSets
  <2>4. Cardinality(Rises \cup {x}) = Cardinality(Rises) + (IF x \in Rises THEN 0 ELSE 1)
    BY <2>2, AddrSets
  <2>5. Cardinality(Rises) \in Nat /\ Cardinality(Rises') \in Nat /\ Cardinality(Rises) <= lines
    BY <2>2, AddrSets DEF Bounds, StartsAreRises
  <2>6. QED  BY <1>3, <2>3, <2>4, <2>5
<1>14. StartsAreRises'  BY <1>1, <1>4, <1>13 DEF StartsAreRises
<1>15. strayed' \in BOOLEAN /\ printed' = {} /\ lines' \in 0 .. MaxLines
  BY <1>1, <1>3 DEF Bounds
<1>16. QED  BY <1>1, <1>9, <1>12, <1>14, <1>15 DEF Bounds

(* LEMMA: beginning the sweep.                                             *)
LEMMA SendBounds == ASSUME Inv, Bounds, SendBlacklist PROVE Bounds'
<1>1. /\ stage = "parse" /\ stage' = "sweep" /\ todo' = addrs
      /\ UNCHANGED <<b, w, addrs, lines, nb, nw, bs, ws, state, cl, strayed, printed>>
  BY DEF SendBlacklist, entries
<1>2. bs = 0 /\ ws = 0 /\ state = 0 /\ cl = <<>> /\ ~strayed /\ addrs \subseteq Addr
  BY <1>1 DEF Inv, Rest, Typed
<1>3. lines \in Nat /\ Len(cl) = 0 /\ Reached' = {}
  BY <1>1, <1>2, LinesAssumption DEF Bounds, Reached
<1>4. ASSUME NEW sum, NEW n, Consistent(sum, n, addrs), NEW a \in Addr, Current(a)'
      PROVE  n[a] = 0
  BY <1>1, <1>4 DEF Consistent, Bare, Current, Swept
<1>5. Total(b, bs)'
  <2>1. PICK n \in [Addr -> -lines .. lines] : Consistent(b, n, addrs)  BY DEF Bounds, Total
  <2>2. \A a \in Addr : Current(a)' => n[a] = 0  BY <1>4, <2>1
  <2>3. -lines <= 0 /\ 0 <= lines /\ -lines - 1 <= 0 /\ 0 <= lines + 1  BY <1>3
  <2>4. QED  BY <1>1, <1>2, <2>1, <2>2, <2>3 DEF Total
<1>6. Total(w, ws)'
  <2>1. PICK n \in [Addr -> -lines .. lines] : Consistent(w, n, addrs)  BY DEF Bounds, Total
  <2>2. \A a \in Addr : Current(a)' => n[a] = 0  BY <1>4, <2>1
  <2>3. -lines <= 0 /\ 0 <= lines /\ -lines - 1 <= 0 /\ 0 <= lines + 1  BY <1>3
  <2>4. QED  BY <1>1, <1>2, <2>1, <2>2, <2>3 DEF Total
<1>7. StartsAreRises'
  <2>1. Rises' = Rises  BY <1>1 DEF Rises
  <2>2. Cardinality(Rises \ addrs) \in Nat
    <3>1. Rises \ addrs \in SUBSET Addr  BY DEF Rises
    <3>2. QED  BY <3>1, AddrSets
  <2>3. Started' = 0  BY <1>1, <1>2, <1>3 DEF Started
  <2>4. QED  BY <1>1, <1>2, <2>1, <2>2, <2>3 DEF Bounds, StartsAreRises
<1>8. QED  BY <1>1, <1>5, <1>6, <1>7 DEF Bounds

(* LEMMA: one counter in a step of the sweep.                              *)
LEMMA SweepTotal ==
  ASSUME Typed, InOrder, lines \in Nat, ~strayed, stage = "sweep", stage' = "sweep",
         NEW addr \in todo, \A a \in todo : addr <= a, todo' = todo \ {addr},
         UNCHANGED <<addrs, lines>>,
         NEW sum \in [Addr -> Int], NEW count \in Int, NEW more \in {-1, 0, 1},
         \E n \in [Addr -> -lines .. lines] :
           Consistent(sum, n, addrs) /\ \A a \in Addr : Current(a) => n[a] = count,
         Reached = {} => count = 0, strayed' = FALSE => more = 0
  PROVE  /\ \E n \in [Addr -> -lines .. lines] :
              /\ Consistent(sum, n, addrs)
              /\ ~strayed' => \A a \in Addr : Current(a)' => n[a] = count + sum[addr] + more
         /\ strayed' = FALSE => /\ -lines <= count + sum[addr] + more
                                /\ count + sum[addr] + more <= lines
         /\ -lines - 1 <= count + sum[addr] + more /\ count + sum[addr] + more <= lines + 1
         /\ Reached' # {}
<1>1. PICK n \in [Addr -> -lines .. lines] :
        Consistent(sum, n, addrs) /\ \A a \in Addr : Current(a) => n[a] = count
  OBVIOUS
<1>2. n \in [Addr -> Int]  OBVIOUS
<1>3. count + sum[addr] = n[addr] /\ \A a \in Addr : Current(a)' => n[a] = n[addr]
  BY <1>1, <1>2, SweepCounts
<1>4. addr \in Addr /\ Reached' # {}  BY SweepSets
<1>5. n[addr] \in -lines .. lines /\ sum[addr] \in Int  BY <1>4
<1>6. n[addr] = count + sum[addr] + 0  BY <1>3, <1>5
<1>7. strayed' = FALSE => n[addr] = count + sum[addr] + more  BY <1>6
<1>8. count + sum[addr] + more = n[addr] + more  BY <1>3, <1>5
<1>9. -lines - 1 <= n[addr] + more /\ n[addr] + more <= lines + 1  BY <1>5
<1>10. QED  BY <1>1, <1>3, <1>4, <1>5, <1>7, <1>8, <1>9

(* LEMMA: when a range begins, and what it means that none is open.        *)
LEMMA StateBegins ==
  ASSUME NEW s \in {0, 1}, NEW black \in Int, NEW white \in Int
  PROVE  /\ NextState(s, black, white) \in {0, 1}
         /\ s = 0 /\ NextState(s, black, white) = 1 => black > 0 /\ ~(white > 0)
         /\ NextState(s, black, white) = 0 => black <= 0 \/ white > 0
BY DEF NextState

(* LEMMA: a step of the sweep.                                             *)
LEMMA SweepBounds ==
  ASSUME Inv, Bounds, NEW addr \in Addr, NEW stray \in Stray, Sweep(addr, stray)
  PROVE  Bounds'
<1>1. /\ stage = "sweep" /\ stage' = "sweep" /\ addr \in todo /\ (\A a \in todo : addr <= a)
      /\ todo' = todo \ {addr} /\ strayed' = (stray # NoStray)
      /\ bs' = bs + b[addr] + stray.b /\ ws' = ws + w[addr] + stray.w
      /\ state' = NextState(state, bs', ws')
      /\ cl' = IF state = 1 /\ state' = 0 THEN Append(cl, <<bstart, addr - 1>>) ELSE cl
      /\ UNCHANGED <<b, w, addrs, lines, nb, nw, printed>>
  BY DEF Sweep, entries
<1>2. Typed /\ InOrder /\ ~strayed /\ lines \in Nat
  BY <1>1, LinesAssumption DEF Inv, UpToDate, Bounds
<1>3. /\ b \in [Addr -> Int] /\ w \in [Addr -> Int] /\ bs \in Int /\ ws \in Int
      /\ state \in {0, 1} /\ cl \in Seq(Addr \X Addr) /\ Len(cl) \in Nat
  BY <1>2 DEF Typed
<1>4. /\ stray.b \in {-1, 0, 1} /\ stray.w \in {-1, 0, 1}
      /\ strayed' = FALSE => stray.b = 0 /\ stray.w = 0
  <2>1. stray.b \in {-1, 0, 1} /\ stray.w \in {-1, 0, 1}  BY DEF Stray
  <2>2. strayed' = FALSE => stray = NoStray  BY <1>1, Zenon
  <2>3. QED  BY <2>1, <2>2 DEF NoStray
<1>5. /\ \E n \in [Addr -> -lines .. lines] :
           Consistent(b, n, addrs) /\ \A a \in Addr : Current(a) => n[a] = bs
      /\ Reached = {} => bs = 0
  BY <1>1, <1>2 DEF Bounds, Total
<1>6. /\ \E n \in [Addr -> -lines .. lines] :
           Consistent(w, n, addrs) /\ \A a \in Addr : Current(a) => n[a] = ws
      /\ Reached = {} => ws = 0
  BY <1>1, <1>2 DEF Bounds, Total
<1>7. Total(b, bs)'
  <2>1. /\ \E n \in [Addr -> -lines .. lines] :
             /\ Consistent(b, n, addrs)
             /\ ~strayed' => \A a \in Addr : Current(a)' => n[a] = bs + b[addr] + stray.b
        /\ strayed' = FALSE => /\ -lines <= bs + b[addr] + stray.b
                               /\ bs + b[addr] + stray.b <= lines
        /\ -lines - 1 <= bs + b[addr] + stray.b /\ bs + b[addr] + stray.b <= lines + 1
        /\ Reached' # {}
    BY <1>1, <1>2, <1>3, <1>4, <1>5, SweepTotal
  <2>2. QED  BY <1>1, <2>1 DEF Total
<1>8. Total(w, ws)'
  <2>1. /\ \E n \in [Addr -> -lines .. lines] :
             /\ Consistent(w, n, addrs)
             /\ ~strayed' => \A a \in Addr : Current(a)' => n[a] = ws + w[addr] + stray.w
        /\ strayed' = FALSE => /\ -lines <= ws + w[addr] + stray.w
                               /\ ws + w[addr] + stray.w <= lines
        /\ -lines - 1 <= ws + w[addr] + stray.w /\ ws + w[addr] + stray.w <= lines + 1
        /\ Reached' # {}
    BY <1>1, <1>2, <1>3, <1>4, <1>6, SweepTotal
  <2>2. QED  BY <1>1, <2>1 DEF Total
<1>9. /\ state' \in {0, 1} /\ (state' = 0 => bs' <= 0 \/ ws' > 0)
      /\ state = 0 /\ state' = 1 => bs' > 0 /\ ~(ws' > 0)
  <2>1. b[addr] \in Int /\ w[addr] \in Int  BY <1>3
  <2>2. bs' \in Int /\ ws' \in Int  BY <1>1, <1>3, <1>4, <2>1
  <2>3. QED  BY <1>1, <1>3, <2>2, StateBegins
<1> DEFINE now == Cardinality(Rises \ todo)
           next == Cardinality(Rises \ todo')
<1>10. /\ now \in Nat /\ next \in Nat /\ now <= next
       /\ addr \in Rises => next = now + 1
  <2>1. /\ Rises \ todo \in SUBSET Addr /\ Rises \ todo' \in SUBSET Addr
        /\ Rises \ todo \subseteq Rises \ todo'
    BY <1>1 DEF Rises
  <2>2. now \in Nat /\ next \in Nat /\ now <= next  BY <2>1, AddrSets
  <2>3. ASSUME addr \in Rises PROVE next = now + 1
    <3>1. Rises \ todo' = (Rises \ todo) \cup {addr} /\ addr \notin Rises \ todo
      BY <1>1, <2>3
    <3>2. Cardinality((Rises \ todo) \cup {addr}) = now + 1  BY <2>1, <3>1, AddrSets
    <3>3. QED  BY <3>1, <3>2
  <2>4. QED  BY <2>2, <2>3
<1>11. state = 0 /\ state' = 1 /\ ~strayed' => addr \in Rises
  <2> SUFFICES ASSUME state = 0, state' = 1, strayed' = FALSE PROVE addr \in Rises
    BY <1>1
  <2>1. bs' > 0 /\ ~(ws' > 0) /\ (bs <= 0 \/ ws > 0)
    BY <1>9 DEF Bounds, StartsAreRises
  <2>2. b[addr] \in Int /\ w[addr] \in Int  BY <1>3
  <2>3. bs' = bs + b[addr] /\ ws' = ws + w[addr]  BY <1>1, <1>3, <1>4, <2>2
  <2>4. b[addr] > 0 \/ w[addr] < 0  BY <1>3, <2>1, <2>2, <2>3
  <2>5. QED  BY <2>4 DEF Rises
<1>12. Len(cl') = Len(cl) + (IF state = 1 /\ state' = 0 THEN 1 ELSE 0)
  <2>1. CASE state = 1 /\ state' = 0
    <3>1. cl' = Append(cl, <<bstart, addr - 1>>)  BY <1>1, <2>1
    <3> DEFINE r == <<bstart, addr - 1>>
    <3> HIDE DEF r
    <3>2. Len(Append(cl, r)) = Len(cl) + 1  BY <1>3
    <3>3. QED  BY <1>3, <2>1, <3>1, <3>2 DEF r
  <2>2. CASE ~(state = 1 /\ state' = 0)
    <3>1. cl' = cl  BY <1>1, <2>2
    <3>2. QED  BY <1>3, <2>2, <3>1
  <2>3. QED  BY <2>1, <2>2
<1>13. StartsAreRises'
  <2>1. Rises' = Rises  BY <1>1 DEF Rises
  <2>2. Len(cl) + (IF state = 1 THEN 1 ELSE 0) <= now
    BY <1>1, <1>2 DEF Bounds, StartsAreRises, Started
  <2>3. Len(cl') + (IF state' = 1 /\ ~strayed' THEN 1 ELSE 0) <= next
    <3> HIDE DEF now, next
    <3>1. CASE state = 0 /\ state' = 0  BY <1>3, <1>10, <1>12, <2>2, <3>1
    <3>2. CASE state = 0 /\ state' = 1
      BY <1>3, <1>10, <1>11, <1>12, <2>2, <3>2
    <3>3. CASE state = 1 /\ state' = 0  BY <1>3, <1>10, <1>12, <2>2, <3>3
    <3>4. CASE state = 1 /\ state' = 1  BY <1>3, <1>10, <1>12, <2>2, <3>4
    <3>5. QED  BY <1>3, <1>9, <3>1, <3>2, <3>3, <3>4
  <2>4. QED  BY <1>1, <1>9, <2>1, <2>3 DEF Bounds, StartsAreRises, Started
<1>14. strayed' \in BOOLEAN  BY <1>1
<1>15. QED  BY <1>1, <1>7, <1>8, <1>13, <1>14 DEF Bounds

(* LEMMA: they always hold.                                                *)
LEMMA BoundsInvariant == Spec => []Bounds
<1>1. ASSUME Init PROVE Bounds
  <2> DEFINE zero == [a \in Addr |-> 0]
  <2>1. /\ b = zero /\ w = zero /\ nb = zero /\ nw = zero /\ addrs = {} /\ lines = 0
        /\ ~strayed /\ stage = "parse" /\ bs = 0 /\ ws = 0 /\ printed = {}
    BY <1>1 DEF Init
  <2>2. zero \in [Addr -> 0 .. 0] /\ zero \in [Addr -> -0 .. 0] /\ \A a \in Addr : zero[a] = 0
    OBVIOUS
  <2> HIDE DEF zero
  <2>3. Consistent(zero, zero, {})
    BY <2>2, AddrIsInterval DEF Consistent, Steps, Flat, Bare
  <2>4. Total(zero, 0)  BY <2>1, <2>2, <2>3 DEF Total
  <2>5. StartsAreRises
    <3>1. Rises = {}  BY <2>1, <2>2 DEF Rises
    <3>2. QED  BY <2>1, <3>1, FS_EmptySet DEF StartsAreRises
  <2>6. lines \in 0 .. MaxLines  BY <2>1, LinesAssumption
  <2>7. zero \in [Addr -> -lines .. lines] /\ zero \in [Addr -> 0 .. lines]
    BY <2>1, <2>2
  <2>8. {b, w} \subseteq [Addr -> -lines .. lines] /\ {nb, nw} \subseteq [Addr -> 0 .. lines]
    BY <2>1, <2>7
  <2>9. Total(b, bs) /\ Total(w, ws)  BY <2>1, <2>4
  <2>10. strayed \in BOOLEAN /\ stage \in {"parse", "sweep", "sent"}
    BY <1>1, <2>1 DEF Init
  <2>11. QED  BY <2>1, <2>5, <2>6, <2>8, <2>9, <2>10 DEF Bounds
<1>2. ASSUME Inv, Bounds, [Next]_vars PROVE Bounds'
  <2>1. ASSUME NEW l \in Lines, NEW white \in BOOLEAN, ParseNetblock(l[1], l[2], white)
        PROVE  Bounds'
    <3>1. l[1] \in Addr /\ l[2] \in Addr  BY LinesAssumption
    <3>2. QED  BY <1>2, <2>1, <3>1, ParseBounds
  <2>2. CASE SendBlacklist  BY <1>2, <2>2, SendBounds
  <2>3. ASSUME NEW addr \in Addr, NEW stray \in Stray, Sweep(addr, stray) PROVE Bounds'
    BY <1>2, <2>3, SweepBounds
  <2>4. CASE Configure
    <3>1. /\ stage = "sweep" /\ stage' = "sent"
          /\ UNCHANGED <<b, w, addrs, lines, nb, nw, todo, bs, ws, state, cl, strayed>>
      BY <2>4 DEF Configure, entries, sweep
    <3>2. Reached' = Reached /\ \A a : Current(a)' = Current(a)
      BY <3>1 DEF Reached, Current, Swept
    <3>3. Total(b, bs)' /\ Total(w, ws)'  BY <1>2, <3>1, <3>2 DEF Bounds, Total
    <3>4. StartsAreRises'
      BY <1>2, <3>1 DEF Bounds, StartsAreRises, Started, Rises
    <3>5. QED  BY <1>2, <3>1, <3>3, <3>4 DEF Bounds
  <2>5. CASE UNCHANGED vars  BY <1>2, <2>5, BoundsStutter DEF vars
  <2>6. QED  BY <1>2, <2>1, <2>2, <2>3, <2>4, <2>5 DEF Next
<1>3. QED  BY <1>1, <1>2, Invariant, PTL DEF Spec

(* THEOREM: collapse_blacklist makes no more ranges than it was given      *)
(* lines, its counters stay within their number even with reversed lines,  *)
(* lines up to the last address and a stray entry behind the array, and    *)
(* what is printed are netblocks.                                          *)
THEOREM TypeCorrect == Spec => []TypeOK
<1>1. ASSUME Inv, Ends, Bounds PROVE TypeOK
  <2>1. /\ lines \in Nat /\ MaxLines \in Nat /\ lines <= MaxLines /\ Typed
    BY <1>1, LinesAssumption DEF Bounds, Inv
  <2>2. -lines .. lines \subseteq Sum /\ 0 .. lines \subseteq 0 .. MaxLines
    BY <2>1 DEF Sum
  <2>3. {b, w} \subseteq [Addr -> Sum] /\ {nb, nw} \subseteq [Addr -> 0 .. MaxLines]
    BY <1>1, <2>2 DEF Bounds
  <2>4. {bs, ws} \subseteq Sum
    <3>1. bs \in Int /\ ws \in Int  BY <2>1 DEF Typed
    <3>2. -lines - 1 <= bs /\ bs <= lines + 1 /\ -lines - 1 <= ws /\ ws <= lines + 1
      BY <1>1 DEF Bounds, Total
    <3>3. QED  BY <2>1, <3>1, <3>2 DEF Sum
  <2>5. cl \in Seq(Addr \X Addr) /\ Len(cl) <= lines
    <3>1. cl \in Seq(Addr \X Addr) /\ Len(cl) \in Nat  BY <2>1 DEF Typed
    <3>2. CASE stage = "parse"
      <4>1. Len(cl) = 0  BY <1>1, <3>2 DEF Inv, Rest
      <4>2. QED  BY <2>1, <3>1, <4>1
    <3>3. CASE stage # "parse"
      <4>1. Started <= Cardinality(Rises \ todo) /\ Cardinality(Rises) <= lines
        BY <1>1, <3>3 DEF Bounds, StartsAreRises
      <4>2. Rises \in SUBSET Addr /\ Rises \ todo \in SUBSET Addr  BY DEF Rises
      <4>3. /\ Cardinality(Rises \ todo) <= Cardinality(Rises)
            /\ Cardinality(Rises) \in Nat /\ Cardinality(Rises \ todo) \in Nat
        BY <4>2, AddrSets
      <4>4. Len(cl) <= Started  BY <3>1 DEF Started
      <4>5. Started \in Nat  BY <3>1 DEF Started
      <4>6. QED  BY <2>1, <3>1, <4>1, <4>3, <4>4, <4>5
    <3>4. QED  BY <3>1, <3>2, <3>3
  <2>6. printed \subseteq Block
    <3>1. CASE stage # "sent"  BY <1>1, <3>1 DEF Bounds
    <3>2. CASE stage = "sent"
      <4>1. printed = UNION {Printable(Range2CidrList(r[1], r[2])) : r \in ToSet(cl)}
        BY <1>1, <3>2 DEF Ends
      <4>2. ASSUME NEW r \in ToSet(cl)
            PROVE  Printable(Range2CidrList(r[1], r[2])) \subseteq Block
        <5> DEFINE list == Range2CidrList(r[1], r[2])
        <5>1. list \in Seq(Block)  BY <1>1, RangeIs
        <5> HIDE DEF list
        <5>2. \A i \in DOMAIN list : list[i] \in Block  BY <5>1
        <5>3. Printable(list) \subseteq {list[i] : i \in DOMAIN list}  BY Zenon DEF Printable
        <5>4. QED  BY <5>2, <5>3 DEF list
      <4>3. QED  BY <4>1, <4>2
    <3>3. QED  BY <3>1, <3>2
  <2>7. /\ {odd, strayed} \subseteq BOOLEAN /\ stage \in {"parse", "sweep", "sent"}
        /\ addrs \subseteq Addr /\ todo \subseteq addrs /\ state \in {0, 1} /\ bstart \in Addr
        /\ lines \in 0 .. MaxLines
    BY <1>1, <2>1 DEF Bounds, Typed
  <2>8. QED  BY <2>3, <2>4, <2>5, <2>6, <2>7 DEF TypeOK
<1>2. QED  BY <1>1, Invariant, EndsInvariant, BoundsInvariant, PTL
=============================================================================
