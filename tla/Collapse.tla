------------------------------ MODULE Collapse ------------------------------
(***************************************************************************)
(* spamd-setup turns the lines of a blacklist and of the whitelists after  *)
(* it into netblocks: parse_netblock makes two entries of a line, for its  *)
(* first address and the one after its last, collapse_blacklist sorts them *)
(* and sweeps over the addresses, counting how many black and how many     *)
(* white lines cover each, range2cidrlist cuts the black ranges into       *)
(* netblocks, and configure_spamd and configure_pf print those.            *)
(*                                                                         *)
(* An address is a word of W bits; the code's W is 32.                     *)
(***************************************************************************)
EXTENDS Integers, Sequences, SequencesExt, FiniteSetsExt

CONSTANTS
  W,         (* bits of an address                                          *)
  Lines,     (* the lines <<first, last>> that occur                        *)
  MaxLines   (* bound on the lines of a list                                *)

Top == 2 ^ W - 1
Addr == 0 .. Top

ASSUME WidthAssumption == W \in Nat /\ Top \in Nat
ASSUME LinesAssumption == Lines \subseteq Addr \X Addr /\ MaxLines \in Nat

VARIABLES
  b, w,       \* sums of the entries' b and w at each address
  addrs,      \* the addresses that have an entry
  lines,      \* lines read
  nb, nw,     \* history: how many black and white lines cover each address
  odd,        \* history: a line is back to front or ends at the Top
  strayed,    \* history: what lies behind the array was counted in
  stage,      \* "parse", "sweep", then "sent"
  todo,       \* addresses the sweep has not reached
  bs, ws, state, bstart,   \* locals of collapse_blacklist
  cl,         \* ranges <<first, last>>, from which it has netblocks made
  printed     \* netblocks sent to spamd and pf

entries == <<b, w, addrs, lines, nb, nw, odd>>
sweep == <<todo, bs, ws, state, bstart, cl, strayed>>
vars == <<entries, sweep, stage, printed>>

Block == [addr : Addr, bits : 0 .. W]
Sum == -MaxLines - 1 .. MaxLines + 1

TypeOK ==
  /\ {b, w} \subseteq [Addr -> Sum]
  /\ addrs \subseteq Addr /\ todo \subseteq addrs
  /\ lines \in 0 .. MaxLines
  /\ {nb, nw} \subseteq [Addr -> 0 .. MaxLines]
  /\ {odd, strayed} \subseteq BOOLEAN
  /\ stage \in {"parse", "sweep", "sent"}
  /\ {bs, ws} \subseteq Sum
  /\ state \in {0, 1}
  /\ bstart \in Addr
  /\ cl \in Seq(Addr \X Addr) /\ Len(cl) <= lines
  /\ printed \subseteq Block

Init ==
  /\ b = [a \in Addr |-> 0] /\ w = b
  /\ addrs = {} /\ lines = 0
  /\ nb = b /\ nw = b
  /\ odd = FALSE /\ strayed = FALSE
  /\ stage = "parse"
  /\ todo = {} /\ bs = 0 /\ ws = 0 /\ state = 0 /\ bstart = 0
  /\ cl = <<>>
  /\ printed = {}

-----------------------------------------------------------------------------
(* parse_netblock.  The three forms of a line all come down to a first and *)
(* a last address; "start > end" compares the pointers, so a range that is *)
(* back to front is taken; the address after the last one wraps.  Fault    *)
(* variant: it is kept in a wider word.                                    *)

AfterWide(last) == last + 1
After(last) == (last + 1) % (Top + 1)
Covers(first, last, a) == first <= a /\ a <= last

Counted(sum, first, last) ==
  [a \in Addr |-> sum[a] + (IF a = first THEN 1 ELSE 0)
                         - (IF a = After(last) THEN 1 ELSE 0)]
Covered(n, first, last) ==
  [a \in Addr |-> n[a] + (IF Covers(first, last, a) THEN 1 ELSE 0)]

ParseNetblock(first, last, white) ==
  /\ stage = "parse" /\ lines < MaxLines
  /\ lines' = lines + 1
  /\ addrs' = addrs \cup {first, After(last)}
  /\ odd' = (odd \/ first > last \/ last = Top)
  /\ IF white
     THEN /\ w' = Counted(w, first, last) /\ nw' = Covered(nw, first, last)
          /\ UNCHANGED <<b, nb>>
     ELSE /\ b' = Counted(b, first, last) /\ nb' = Covered(nb, first, last)
          /\ UNCHANGED <<w, nw>>
  /\ UNCHANGED <<sweep, stage, printed>>

(* send_blacklist does nothing for a list without an entry.                *)
SendBlacklist ==
  /\ stage = "parse" /\ lines > 0
  /\ stage' = "sweep"
  /\ todo' = addrs
  /\ UNCHANGED <<entries, bs, ws, state, bstart, cl, strayed, printed>>

-----------------------------------------------------------------------------
(* collapse_blacklist: the entries of one address per step.  The loop over *)
(* them also looks at the one behind the last, where there is none: if     *)
(* that memory holds the last address again, the loop counts it.  Fault    *)
(* variant: white is not looked at while no black line covers the address. *)

NextStateStays(s, black, white) ==
  IF s = 1 /\ (black = 0 \/ white > 0) THEN 0
  ELSE IF s = 0 /\ black > 0 THEN 1
  ELSE s
NextState(s, black, white) ==
  IF white > 0 THEN 0
  ELSE IF s = 1 /\ black = 0 THEN 0
  ELSE IF s = 0 /\ black > 0 THEN 1
  ELSE s

Stray == {[b |-> x, w |-> y] : x, y \in {-1, 0, 1}}
NoStray == [b |-> 0, w |-> 0]

(* Fault variant of the step: a range ends with the address that ends it.  *)
SweepThrough(addr, stray) ==
  /\ stage = "sweep" /\ addr \in todo /\ \A a \in todo : addr <= a
  /\ todo' = todo \ {addr}
  /\ stray # NoStray => todo = {addr}
  /\ strayed' = (stray # NoStray)
  /\ bs' = bs + b[addr] + stray.b
  /\ ws' = ws + w[addr] + stray.w
  /\ state' = NextState(state, bs', ws')
  /\ bstart' = IF state = 0 /\ state' = 1 THEN addr ELSE bstart
  /\ cl' = IF state = 1 /\ state' = 0 THEN Append(cl, <<bstart, addr>>) ELSE cl
  /\ UNCHANGED <<entries, stage, printed>>
Sweep(addr, stray) ==
  /\ stage = "sweep" /\ addr \in todo /\ \A a \in todo : addr <= a
  /\ todo' = todo \ {addr}
  /\ stray # NoStray => todo = {addr}
  /\ strayed' = (stray # NoStray)
  /\ bs' = bs + b[addr] + stray.b
  /\ ws' = ws + w[addr] + stray.w
  /\ state' = NextState(state, bs', ws')
  /\ bstart' = IF state = 0 /\ state' = 1 THEN addr ELSE bstart
  /\ cl' = IF state = 1 /\ state' = 0 THEN Append(cl, <<bstart, addr - 1>>) ELSE cl
  /\ UNCHANGED <<entries, stage, printed>>

-----------------------------------------------------------------------------
(* range2cidrlist.  a & imask(n) clears all but the first n bits.  Fault   *)
(* variant: without "b++".                                                 *)

Masked(a, n) == a - (a % (2 ^ (W - n)))
MaxBlock(a) == Min({n \in 0 .. W : Masked(a, n) = a})
MaxDiffInclusive(first, last) ==
  Min({n \in 0 .. W - 1 : Masked(first, n) # Masked(last, n)} \cup {W})
MaxDiff(first, last) ==
  Min({n \in 0 .. W - 1 : Masked(first, n) # Masked(After(last), n)} \cup {W})

Size(bits) == 2 ^ (W - bits)
Range2CidrList(first, last) ==
  LET bits(start) == Max({MaxBlock(start), MaxDiff(start, last)})
      from[start \in Nat] ==
        IF start > last THEN <<>>
        ELSE <<[addr |-> start, bits |-> bits(start)]>> \o from[start + Size(bits(start))]
  IN from[first]

(* configure_spamd and configure_pf print a list until a block has the     *)
(* address 0, which is how a list ends.                                    *)
Printable(blocks) ==
  {blocks[i] : i \in {j \in DOMAIN blocks : \A k \in 1 .. j : blocks[k].addr # 0}}

Configure ==
  /\ stage = "sweep" /\ todo = {}
  /\ stage' = "sent"
  /\ printed' = UNION {Printable(Range2CidrList(r[1], r[2])) : r \in ToSet(cl)}
  /\ UNCHANGED <<entries, sweep>>

Next ==
  \/ \E l \in Lines, white \in BOOLEAN : ParseNetblock(l[1], l[2], white)
  \/ SendBlacklist
  \/ \E addr \in Addr, stray \in Stray : Sweep(addr, stray)
  \/ Configure

Spec == Init /\ [][Next]_vars

-----------------------------------------------------------------------------
Listed == {a \in Addr : nb[a] > 0 /\ nw[a] = 0}
Addresses(block) == block.addr .. block.addr + Size(block.bits) - 1
Blocked == UNION {Addresses(block) : block \in printed}

(* What is blocked is what the lists say, black and not white, if no line  *)
(* is back to front or ends at the last address, nothing was counted in    *)
(* from behind the array, and the address 0 is not to be blocked.          *)
Exact ==
  stage = "sent" /\ ~odd /\ ~strayed /\ 0 \notin Listed => Blocked = Listed

(* The same for the sweep alone, at each of its steps: the ranges made so  *)
(* far and the one that is open hold what is listed up to here.            *)
Swept == {a \in Addr : \A t \in todo : a < t}
InRanges == UNION {r[1] .. r[2] : r \in ToSet(cl)}
SweepExact ==
  stage # "parse" /\ ~odd /\ ~strayed =>
    Listed \cap Swept =
      InRanges \cup (IF state = 1 THEN {a \in Swept : bstart <= a} ELSE {})

(* "nonoverlapping": whatever the lines, each range starts after the one   *)
(* before it has ended, with an address between them, and none is empty.   *)
RangesApart ==
  /\ \A i \in 1 .. Len(cl) : cl[i][1] <= cl[i][2]
  /\ \A i, j \in 1 .. Len(cl) : i < j => cl[i][2] + 1 < cl[j][1]

(* Each range is cut into as few netblocks as can be: those inside it that *)
(* are in no larger netblock inside it.                                    *)
Netblocks == {block \in Block : block.addr % Size(block.bits) = 0}
Shortest ==
  stage = "sent" =>
    \A r \in ToSet(cl) :
      LET inside == {block \in Netblocks : Addresses(block) \subseteq r[1] .. r[2]}
      IN ToSet(Range2CidrList(r[1], r[2])) =
           {x \in inside : ~\E y \in inside : y.bits < x.bits /\ Addresses(x) \subseteq Addresses(y)}

-----------------------------------------------------------------------------
(* "collapse_blacklist takes blacklist/whitelist entries sorts, removes    *)
(* overlaps and whitelist portions, and returns netblocks to blacklist"    *)
(* (spamd-setup.c): no address is blocked that no blacklist has, or that a *)
(* whitelist has.                                                          *)
NothingElse == ~strayed => Blocked \subseteq Listed
=============================================================================
