----------------------------- MODULE GreyReader -----------------------------
(***************************************************************************)
(* The line protocol on greypipe.  The jail writes a tuple as five lines   *)
(* (nextstate, spamd.c), one it heard from a peer as SYNC and four lines,  *)
(* a peer's TRAP or WHITE as one line (sync_recv, sync.c).  greyreader     *)
(* (grey.c) puts the lines together again, one state per line, and calls   *)
(* greyupdate or, through twread, twupdate.                                *)
(*                                                                         *)
(* A line shorter than four characters is dropped before anything looks    *)
(* at it: "CO:" and "HE:" of a client whose target address could not be    *)
(* looked up, or that said no HELO.  greyreader's buffers survive from one *)
(* message to the next.                                                    *)
(***************************************************************************)
EXTENDS Naturals, Sequences, SequencesExt

CONSTANTS
  MaxMessages,   (* bound on the messages written                           *)
  MaxLines       (* lines that fit in the pipe                              *)

ASSUME BoundsAssumption == MaxMessages \in Nat /\ MaxLines \in Nat

(* The address a client connected to, as getcaddr found it: the low        *)
(* priority MX, another one, or none.                                      *)
Target == {"low", "high", ""}

(* kind "tuple": from our own client, "sync" or "tw": from a peer.  A peer *)
(* sends only tuples that its own greyreader took, so they have a HELO; it *)
(* is taken at its word, sync_recv passes on what the datagram says.       *)
Message == [kind : {"tuple"}, co : Target, helo : BOOLEAN]
             \cup [kind : {"sync", "tw"}, co : {""}, helo : {TRUE}]

VARIABLES
  written,   \* history: the messages, in the order of writing
  pipe,      \* lines [tag, of, text]: of whose message, what follows the tag
  state,     \* greyreader's locals
  sync,
  cip,
  helo, ip, from,   \* the numbers of the messages that gave them
  updates    \* history: the calls of greyupdate and twupdate

fields == <<cip, helo, ip, from>>
vars == <<written, pipe, state, sync, fields, updates>>

TypeOK ==
  /\ written \in Seq(Message) /\ Len(written) <= MaxMessages
  /\ pipe \in Seq([tag : {"SYNC", "CO", "HE", "IP", "FR", "TO", "TW"},
                   of : 1 .. MaxMessages, text : Target \cup {"text"}])
  /\ Len(pipe) <= MaxLines
  /\ state \in 0 .. 3
  /\ sync \in BOOLEAN
  /\ cip \in Target
  /\ {helo, ip, from} \subseteq 0 .. MaxMessages
  /\ Len(updates) <= Len(written)

(* cip is read before it is ever set when the first tuples have no CO; it  *)
(* then is what the stack holds, which hardly spells the low priority MX.  *)
Init ==
  /\ written = <<>> /\ pipe = <<>>
  /\ state = 0 /\ sync = TRUE
  /\ cip \in Target \ {"low"}
  /\ helo = 0 /\ ip = 0 /\ from = 0
  /\ updates = <<>>

-----------------------------------------------------------------------------
(* The jail: one fprintf and fflush per message, which waits for room.     *)
(* Fault variants: it does not wait; it says HE before CO.                 *)

LinesHeloFirst(m, i) ==
  LET Line(tag, text) == [tag |-> tag, of |-> i, text |-> text]
      he == <<Line("HE", IF m.helo THEN "text" ELSE "")>>
      rest == <<Line("IP", "text"), Line("FR", "text"), Line("TO", "text")>>
  IN
  CASE m.kind = "tuple" -> he \o <<Line("CO", m.co)>> \o rest
    [] m.kind = "sync" -> <<Line("SYNC", "text")>> \o he \o rest
    [] m.kind = "tw" -> <<Line("TW", "text")>>
Lines(m, i) ==
  LET Line(tag, text) == [tag |-> tag, of |-> i, text |-> text]
      tuple == <<Line("HE", IF m.helo THEN "text" ELSE ""), Line("IP", "text"),
                 Line("FR", "text"), Line("TO", "text")>>
  IN
  CASE m.kind = "tuple" -> <<Line("CO", m.co)>> \o tuple
    [] m.kind = "sync" -> <<Line("SYNC", "text")>> \o tuple
    [] m.kind = "tw" -> <<Line("TW", "text")>>

WriteAnyway(m) ==
  /\ Len(written) < MaxMessages
  /\ written' = Append(written, m)
  /\ pipe' = pipe \o Lines(m, Len(written) + 1)
  /\ UNCHANGED <<state, sync, fields, updates>>
Write(m) ==
  LET lines == Lines(m, Len(written) + 1) IN
  /\ Len(written) < MaxMessages
  /\ Len(pipe) + Len(lines) <= MaxLines
  /\ written' = Append(written, m)
  /\ pipe' = pipe \o lines
  /\ UNCHANGED <<state, sync, fields, updates>>

-----------------------------------------------------------------------------
(* greyreader, one line per step.                                          *)

Line == Head(pipe)
Short == Line.text = ""
Reads == pipe # <<>> /\ pipe' = Tail(pipe) /\ UNCHANGED written

ReadShort ==
  /\ Reads /\ Short
  /\ UNCHANGED <<state, sync, fields, updates>>

ReadSync ==
  /\ Reads /\ Line.tag = "SYNC"
  /\ sync' = FALSE
  /\ UNCHANGED <<state, fields, updates>>

Takes(s) == Reads /\ ~Short /\ Line.tag # "SYNC" /\ state = s

(* State 0: twread, then HE, then CO; anything else is skipped.  What      *)
(* twupdate then refuses is Greylist's and SyncNet's matter.  Fault        *)
(* variant: the rest of a tuple without HE is not skipped.                 *)
ReadFirstAny ==
  /\ Takes(0)
  /\ updates' = IF Line.tag = "TW" THEN Append(updates, [tw |-> Line.of]) ELSE updates
  /\ cip' = IF Line.tag = "CO" THEN Line.text ELSE cip
  /\ helo' = IF Line.tag = "HE" THEN Line.of ELSE helo
  /\ ip' = IF Line.tag = "IP" THEN Line.of ELSE ip
  /\ state' = CASE Line.tag = "HE" -> 1 [] Line.tag = "IP" -> 2 [] OTHER -> 0
  /\ UNCHANGED <<sync, from>>
ReadFirst ==
  /\ Takes(0)
  /\ updates' = IF Line.tag = "TW" THEN Append(updates, [tw |-> Line.of]) ELSE updates
  /\ cip' = IF Line.tag = "CO" THEN Line.text ELSE cip
  /\ helo' = IF Line.tag = "HE" THEN Line.of ELSE helo
  /\ state' = IF Line.tag = "HE" THEN 1 ELSE 0
  /\ UNCHANGED <<sync, ip, from>>

(* State 1: a line that is not IP is skipped.  The jail writes numeric     *)
(* addresses only, so getaddrinfo accepts them.                            *)
ReadIp ==
  /\ Takes(1)
  /\ state' = IF Line.tag = "IP" THEN 2 ELSE 1
  /\ ip' = IF Line.tag = "IP" THEN Line.of ELSE ip
  /\ UNCHANGED <<sync, cip, helo, from, updates>>

ReadFrom ==
  /\ Takes(2)
  /\ state' = IF Line.tag = "FR" THEN 3 ELSE 0
  /\ from' = IF Line.tag = "FR" THEN Line.of ELSE from
  /\ UNCHANGED <<sync, cip, helo, ip, updates>>

(* State 3 calls greyupdate.  Fault variant: sync is not set again.        *)
Update == [helo |-> helo, ip |-> ip, from |-> from, to |-> Line.of,
           sync |-> sync, cip |-> cip]

ReadToKeepsSync ==
  /\ Takes(3)
  /\ state' = 0
  /\ updates' = IF Line.tag = "TO" THEN Append(updates, Update) ELSE updates
  /\ UNCHANGED <<sync, fields>>
ReadTo ==
  /\ Takes(3)
  /\ state' = 0
  /\ IF Line.tag = "TO"
     THEN updates' = Append(updates, Update) /\ sync' = TRUE
     ELSE UNCHANGED <<updates, sync>>
  /\ UNCHANGED fields

Next ==
  \/ \E m \in Message : Write(m)
  \/ ReadShort \/ ReadSync \/ ReadFirst \/ ReadIp \/ ReadFrom \/ ReadTo

Spec == Init /\ [][Next]_vars

-----------------------------------------------------------------------------
IsTuple(u) == "helo" \in DOMAIN u
Number(u) == IF IsTuple(u) THEN u.to ELSE u.tw
Read(i) == \A k \in 1 .. Len(pipe) : pipe[k].of # i

(* No update is lost, made up, repeated, reordered or put together from    *)
(* two messages: the calls are those of the messages that have been read   *)
(* and have a HELO, one each, in their order, with that message's fields.  *)
EachMessageOnce ==
  /\ {Number(u) : u \in ToSet(updates)} = {i \in 1 .. Len(written) : written[i].helo /\ Read(i)}
  /\ \A k, l \in 1 .. Len(updates) : k < l => Number(updates[k]) < Number(updates[l])
  /\ \A u \in ToSet(updates) : IsTuple(u) => {u.helo, u.ip, u.from} = {u.to}

(* A peer's tuple is never sent on to the peers, nor held against the low  *)
(* priority MX rule, and our own always is: the SYNC line marks the tuple  *)
(* that follows it and no other.                                           *)
SyncMarksItsTuple ==
  \A u \in ToSet(updates) :
    IsTuple(u) => (u.sync <=> written[u.to].kind = "tuple")

-----------------------------------------------------------------------------
(* All in all the protocol is a feed of whole messages.  It is silent      *)
(* about the target of a tuple whose own is not known: a client of which   *)
(* getcaddr knew nothing is taken for one that came to the low priority MX *)
(* if the client before it did.                                            *)
Calls ==
  [k \in 1 .. Len(updates) |->
    LET u == updates[k] IN
    IF IsTuple(u) THEN [of |-> {u.helo, u.ip, u.from, u.to}, sync |-> u.sync, cip |-> u.cip]
    ELSE [of |-> {u.tw}]]

Feed == INSTANCE TupleFeed WITH
  log <- written,
  taken <- Cardinality({i \in 1 .. Len(written) : Read(i)}),
  calls <- Calls

IsFeed == Feed!Spec
=============================================================================
