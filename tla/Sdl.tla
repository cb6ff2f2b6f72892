-------------------------------- MODULE Sdl --------------------------------
(***************************************************************************)
(* The jail's blacklists (sdl.c), how lines change them, and the           *)
(* connections that point at them (spamd.c).                               *)
(*                                                                         *)
(* A line names a list and its addresses.  spamd-setup sends one per       *)
(* configuration connection, which do_config collects in a buffer until    *)
(* the connection closes; the scanner's line of trapped hosts comes        *)
(* through trappipe.  sdl_add replaces the list of that name or appends    *)
(* one to the array.  initcon remembers which elements of the array have   *)
(* the client's address, and build_reply reads their messages much later.  *)
(***************************************************************************)
EXTENDS Naturals, Sequences, SequencesExt

CONSTANTS
  Tag,        (* names of the lists spamd-setup sends                       *)
  Greytrap,   (* the list of trapped hosts, which greyscan sends            *)
  Ip,
  Slot,       (* the connection table                                       *)
  Chunk,      (* elements by which the array grows: 128 in the code         *)
  MaxLines,   (* bound on the lines written                                 *)
  NULL

Lists == Tag \cup {Greytrap}

ASSUME GreytrapAssumption == Greytrap \notin Tag
ASSUME NullAssumption == NULL \notin Lists
ASSUME BoundsAssumption == Chunk \in Nat \ {0} /\ MaxLines \in Nat

VARIABLES
  blacklists,  \* the elements in use: [tag, addrs], tag NULL after sdl_free
  blc,         \* elements allocated
  moved,       \* how often realloc moved the array
  conf,        \* the configuration connection: what its peer has yet to do
  cb,          \* do_config's buffer: halves of lines
  con,         \* per slot: the client's address and its pointers
  last,        \* history: what the last accepted line said of each list
  failed,      \* history: a replacement failed, or garbage was freed
  overrun,     \* history: a terminator was written behind the array
  dead,        \* the jail dereferenced a pointer that is not one
  lines        \* history: lines begun

listvars == <<blacklists, blc, moved, last, failed, overrun>>
vars == <<listvars, conf, cb, con, dead, lines>>

Line == [tag : Lists, addrs : (SUBSET Ip) \ {{}}]
Half == [line : Line, part : {"head", "tail"}, of : 1 .. MaxLines]
Element == [tag : Lists \cup {NULL}, addrs : SUBSET Ip]
Pointer == [array : 0 .. MaxLines, idx : 1 .. MaxLines, tag : Lists]
NoConn == [of |-> 0]
Closed == [ip |-> NULL, to |-> {}]
Absent == {}

TypeOK ==
  /\ blacklists \in Seq(Element) /\ Len(blacklists) <= blc
  /\ blc \in {Chunk * n : n \in 0 .. MaxLines}
  /\ moved \in 0 .. MaxLines
  /\ conf = NoConn \/ conf \in [of : 1 .. MaxLines, todo : Seq(Half)]
  /\ cb \in Seq(Half)
  /\ con \in [Slot -> [ip : Ip \cup {NULL}, to : SUBSET Pointer]]
  /\ last \in [Lists -> SUBSET Ip]
  /\ {failed, overrun, dead} \subseteq BOOLEAN
  /\ lines \in 0 .. MaxLines

Init ==
  /\ blacklists = <<>> /\ blc = 0 /\ moved = 0
  /\ conf = NoConn /\ cb = <<>>
  /\ con = [i \in Slot |-> Closed]
  /\ last = [t \in Lists |-> Absent]
  /\ failed = FALSE /\ overrun = FALSE /\ dead = FALSE
  /\ lines = 0

-----------------------------------------------------------------------------
(* sdl_add.  The search compares the name with every tag before the one    *)
(* it looks for, a NULL among them or not.                                 *)

blu == Len(blacklists)
Tagged(t) == {i \in 1 .. blu : blacklists[i].tag = t}
Found(t) == \E i \in Tagged(t) : \A j \in Tagged(NULL) \cup Tagged(t) : i <= j
Index(t) == CHOOSE i \in Tagged(t) : \A j \in Tagged(t) : i <= j
Searchable(t) == Tagged(NULL) = {} \/ Found(t)
Freed == [tag |-> NULL, addrs |-> {}]

(* What becomes of a line: "bad" has an address that does not parse, for   *)
(* "nomem" malloc fails.  An element is freed before its successor is      *)
(* read; what fails leaves it free, in the middle of the array.  Fault     *)
(* variant: the old addresses stay.                                        *)
Outcome == {"ok", "bad", "nomem"}

ReplaceAdds(line, out) ==
  /\ Found(line.tag)
  /\ blacklists' = [blacklists EXCEPT ![Index(line.tag)] =
                      IF out = "ok" THEN [tag |-> line.tag, addrs |-> @.addrs \cup line.addrs]
                      ELSE Freed]
  /\ last' = [last EXCEPT ![line.tag] = IF out = "ok" THEN line.addrs ELSE Absent]
  /\ failed' = (failed \/ out # "ok")
  /\ UNCHANGED <<blc, moved, overrun>>
Replace(line, out) ==
  /\ Found(line.tag)
  /\ blacklists' = [blacklists EXCEPT ![Index(line.tag)] =
                      IF out = "ok" THEN [tag |-> line.tag, addrs |-> line.addrs] ELSE Freed]
  /\ last' = [last EXCEPT ![line.tag] = IF out = "ok" THEN line.addrs ELSE Absent]
  /\ failed' = (failed \/ out # "ok")
  /\ UNCHANGED <<blc, moved, overrun>>

(* The array grows when a list is added to a full one, if there is memory. *)
(* Fault variant: it grows one list too late.                              *)
GrowLate(out) ==
  \/ blu <= blc /\ blc > 0 /\ UNCHANGED <<blc, moved>>
  \/ (blu > blc \/ blc = 0) /\ blc' = blc + Chunk /\ UNCHANGED moved
Grow(out) ==
  \/ blu < blc /\ UNCHANGED <<blc, moved>>
  \/ blu = blc /\ blc' = blc + Chunk
     /\ moved' \in {moved} \cup (IF blc > 0 THEN {moved + 1} ELSE {})
  \/ blu = blc /\ out = "nomem" /\ UNCHANGED <<blc, moved>>

(* What fails to be appended is freed behind the last element, where it is *)
(* the terminator; without memory for the name, so are pointers nobody has *)
(* set.  The terminator goes behind the new last element although the      *)
(* array may end there.  Fault variant: blu is incremented too early.      *)
AppendEarly(line, out) ==
  /\ Searchable(line.tag) /\ ~Found(line.tag)
  /\ Grow(out)
  /\ blacklists' = IF blu = blc' THEN blacklists
                   ELSE IF out = "ok"
                   THEN Append(blacklists, [tag |-> line.tag, addrs |-> line.addrs])
                   ELSE Append(blacklists, Freed)
  /\ last' = IF out = "ok" THEN [last EXCEPT ![line.tag] = line.addrs] ELSE last
  /\ overrun' = (overrun \/ Len(blacklists') = blc')
  /\ failed' = (failed \/ (out = "nomem" /\ blu < blc))
AppendList(line, out) ==
  /\ Searchable(line.tag) /\ ~Found(line.tag)
  /\ Grow(out)
  /\ IF out = "ok"
     THEN /\ blacklists' = Append(blacklists, [tag |-> line.tag, addrs |-> line.addrs])
          /\ last' = [last EXCEPT ![line.tag] = line.addrs]
          /\ overrun' = (overrun \/ blu + 1 = blc')
     ELSE UNCHANGED <<blacklists, last, overrun>>
  /\ failed' = (failed \/ (out = "nomem" /\ blu < blc))

(* strcmp(NULL, ...).                                                      *)
AddCrashes(line) ==
  /\ ~Searchable(line.tag)
  /\ dead' = TRUE
  /\ UNCHANGED listvars

(* A write behind the array, or free of what is not a pointer, may crash.  *)
SdlAdd(line) ==
  \/ \E out \in Outcome :
       \/ Replace(line, out) /\ UNCHANGED dead
       \/ AppendList(line, out)
          /\ dead' \in {FALSE, overrun' # overrun \/ (out = "nomem" /\ blu < blc)}
  \/ AddCrashes(line)

Ignored == UNCHANGED <<listvars, dead>>

-----------------------------------------------------------------------------
(* The peer of the configuration connection sends its line in two halves   *)
(* and closes; it may die half way, which closes the connection in order   *)
(* too, and what is left of it may break off with an error.                *)

Alive == ~dead

Connect(line) ==
  /\ Alive /\ conf = NoConn /\ lines < MaxLines
  /\ lines' = lines + 1
  /\ LET half(part) == [line |-> line, part |-> part, of |-> lines']
     IN conf' \in [of : {lines'},
                   todo : {<<>>, <<half("head")>>, <<half("head"), half("tail")>>}]
  /\ UNCHANGED <<listvars, cb, con, dead>>

(* do_config: what one read returns is added to the buffer.                *)
ReadConf ==
  /\ Alive /\ conf # NoConn /\ conf.todo # <<>>
  /\ \E n \in 1 .. Len(conf.todo) :
       /\ cb' = cb \o SubSeq(conf.todo, 1, n)
       /\ conf' = [conf EXCEPT !.todo = SubSeq(conf.todo, n + 1, Len(conf.todo))]
  /\ UNCHANGED <<listvars, con, dead, lines>>

(* Fault variant: an error does not empty the buffer.                      *)
ReadErrorKeeps ==
  /\ Alive /\ conf # NoConn
  /\ conf' = NoConn
  /\ UNCHANGED <<listvars, cb, con, dead, lines>>
ReadError ==
  /\ Alive /\ conf # NoConn
  /\ conf' = NoConn /\ cb' = <<>>
  /\ UNCHANGED <<listvars, con, dead, lines>>

(* End of file: parse_configs, which ignores everything without memory.  A *)
(* line that was cut off is rejected by parse_configline, or has a last    *)
(* address that sdl_add cannot read, or one whose mask lost a digit and so *)
(* covers more; the addresses after it are missing.                        *)
ParseLine ==
  \/ Ignored
  \/ IF Len(cb) = 2 /\ cb[1].part = "head" /\ cb[2].part = "tail"
     THEN SdlAdd([cb[1].line EXCEPT !.addrs = cb[2].line.addrs])
     ELSE \E addrs \in (SUBSET Ip) \ {{}} : SdlAdd([cb[1].line EXCEPT !.addrs = addrs])

ReadEof ==
  /\ Alive /\ conf # NoConn /\ conf.todo = <<>>
  /\ conf' = NoConn /\ cb' = <<>>
  /\ IF cb = <<>> THEN Ignored ELSE ParseLine
  /\ UNCHANGED <<con, lines>>

(* read_configline: a whole line from trappipe, ignored without memory.    *)
ReadTrapLine(addrs) ==
  /\ Alive /\ lines < MaxLines
  /\ lines' = lines + 1
  /\ SdlAdd([tag |-> Greytrap, addrs |-> addrs]) \/ Ignored
  /\ UNCHANGED <<conf, cb, con>>

-----------------------------------------------------------------------------
(* Connections.  sdl_lookup walks to the first element without a tag; when *)
(* it has no memory for what it finds, it finds nothing.  (For more than   *)
(* 128 lists it would return the first 128.)                               *)

Visible == {i \in 1 .. blu : \A j \in 1 .. i : blacklists[j].tag # NULL}
Lookup(ip) ==
  {{[array |-> moved, idx |-> k, tag |-> blacklists[k].tag] :
      k \in {i \in Visible : ip \in blacklists[i].addrs}},
   {}}

InitCon(i, ip) ==
  /\ Alive /\ con[i] = Closed
  /\ \E to \in Lookup(ip) : con' = [con EXCEPT ![i] = [ip |-> ip, to |-> to]]
  /\ UNCHANGED <<listvars, conf, cb, dead, lines>>

(* build_reply, at the end of the dialogue, reads the message of each list *)
(* the connection was found on.  A free element has none; in the place of  *)
(* an array that realloc moved there may be anything.                      *)
Dangling(p) == p.array # moved
Null(p) == ~Dangling(p) /\ blacklists[p.idx].tag = NULL

BuildReply(i) ==
  /\ Alive /\ con[i] # Closed
  /\ dead' \in {x \in BOOLEAN : /\ (\E p \in con[i].to : Null(p)) => x
                                /\ x => \E p \in con[i].to : Null(p) \/ Dangling(p)}
  /\ con' = [con EXCEPT ![i] = Closed]
  /\ UNCHANGED <<listvars, conf, cb, lines>>

CloseCon(i) ==
  /\ Alive /\ con[i] # Closed
  /\ con' = [con EXCEPT ![i] = Closed]
  /\ UNCHANGED <<listvars, conf, cb, dead, lines>>

Next ==
  \/ \E line \in [tag : Tag, addrs : (SUBSET Ip) \ {{}}] : Connect(line)
  \/ ReadConf \/ ReadError \/ ReadEof
  \/ \E addrs \in (SUBSET Ip) \ {{}} : ReadTrapLine(addrs)
  \/ \E i \in Slot, ip \in Ip : InitCon(i, ip)
  \/ \E i \in Slot : BuildReply(i) \/ CloseCon(i)

Spec == Init /\ [][Next]_vars

-----------------------------------------------------------------------------
(* A lookup that has memory finds a client on exactly those lists in sight *)
(* whose last accepted line has its address, each once.  No accepted list  *)
(* leaves the array but by a replacement that failed, and only such a      *)
(* failure puts lists out of sight: those behind it in the array.          *)
InForce ==
  /\ \A i \in Visible : blacklists[i].addrs = last[blacklists[i].tag]
  /\ \A i, j \in Visible : blacklists[i].tag = blacklists[j].tag => i = j
  /\ {blacklists[i].tag : i \in 1 .. blu} \ {NULL} = {t \in Lists : last[t] # Absent}
  /\ ~failed => Visible = 1 .. blu

(* The jail reads no string that is not one, and the reply to a client is  *)
(* made of the lists it was found on, whatever replaced their contents in  *)
(* between, unless a replacement failed, the array moved or it overran.    *)
ReplyIsSafe ==
  ~failed /\ moved = 0 /\ ~overrun =>
    /\ ~dead
    /\ \A i \in Slot : \A p \in con[i].to : blacklists[p.idx].tag = p.tag

(* The buffer holds a part of the line of the present connection, from its *)
(* beginning: no connection's rest is parsed with the next one's line.     *)
OneSession ==
  /\ \A k \in 1 .. Len(cb) : cb[k].of = conf.of /\ cb[k].part = <<"head", "tail">>[k]
  /\ conf = NoConn => cb = <<>>

=============================================================================
