# spamd (pkgsrc-wip `spamd-devel`): a verification project

The repository is pkgsrc-wip, some five thousand package descriptions. Almost all of them are
declarative (Makefile, DESCR, PLIST, patches to other people's programs). The largest program
that lives in the tree itself, and the one whose correctness is a matter of concurrency,
failure and time, is the spam deferral daemon under `spamd-devel/files/src`. This project models
it in TLA+, checks it with TLC and proves its main safety properties with TLAPS. Paths below are
relative to `spamd-devel/files/src`.

## 1. Inventory

### The parts and how they interact

```
  clients ==SMTP==> jail (spamd.c) --- greypipe ---> updater (grey.c: greyreader)
                    ^      |  ^                          |  greyupdate, twupdate
                    |      |  |                    [O_EXLOCK] database /var/db/spamd
             trappipe      |  +-- UDP peers (sync.c)     |      |            |
                    |      |                          scanner   spamlogd   spamdb
                    +--------------------------- (greyscan)
                           |                             |
            spamd-setup ---+ (config connection)         +--> pfctl: table <spamd-white>
```

| part | state | operations | what is hard | what makes it correct |
|---|---|---|---|---|
| database (`grey.c`) | entries by address, tuple, spamtrap | `greyupdate`, `twupdate`, `greyscan` with its change queue, `trapcheck` | four programs share it; the clock is read before the lock; scans fail half way; restarts | only hosts with a reason are let through; traps hold; the pf table follows the database |
| `spamlogd`, `spamdb` | the same file | `dbupdate` in each | their own idea of a lifetime; stale clock in `spamlogd` | as above |
| processes (`spamd.c` main, `grey.c` greywatcher) | two pipes, a stdio buffer, the lock, child pids | fork, scan cycle, update cycle, jail round, `sig_term_chld` | circular waiting; signals in the wrong window; `select` over a buffered stream | nobody waits for ever, no orphans, the jail's list follows the database |
| connections (`spamd.c`) | array `con`, `clients`, `blackcount` | `initcon`, `handler`, `handlew`, `nextstate`, `closecon` | one state machine driven from two sides, several ways to end | counters, dialogue, bound on stuttering, every accepted recipient reported |
| greypipe protocol (`nextstate`, `sync_recv`, `greyreader`) | lines in the pipe, reader state and buffers | write a message, read a line | short lines are dropped; buffers survive between messages | each message is one update, with its own fields |
| select loop, config connection (`spamd.c` main, `do_config`) | descriptor sets and their memory, `conffd`, the clock reading `t`, `cb` | one round of the loop, one read | sets computed before the changes they are tested after; numbers reused; no time-out when all read; accepts fail | nobody is made to wait, overdue connections go, pipes are served, a line is never mixed with the next |
| lists (`sdl.c`, `build_reply`) | array of address lists, pointers held by connections | `sdl_add`, `sdl_lookup`, `sdl_free` | replacing fails half way; the array is full, or moves; pointers across a replacement | lookup finds what the last line said; a reply is built from the client's own lists |
| peers (`sync.c`) | none; datagrams under way | send and receive GREY, WHITE, TRAPPED | lossy, unordered datagrams; hosts that are down | who passes has waited somewhere, who is trapped was not seen by the others, no echo |
| `spamd-setup` | range ends, CIDR lists | `parse_netblock`, `collapse_blacklist`, `range2cidrlist` | 32-bit boundaries, reading behind the array | black minus white, exactly, in disjoint ranges and few blocks |

### Hazards

`PROJECT.json` lists the hazards at their lines, with the properties that would catch them and,
for the few without one, the reason; what the code is seen to do there is in section 6.

### Not modelled, and why

* Package descriptions, nearly all of the repository: data for pkgsrc's make without state of
  their own, and patches to programs whose sources are fetched from elsewhere. A share of the
  repository's lines covered by the models can only be small: the models cover the state changing
  code of spamd, which is one of its packages.
* `mk/*.mk` and `import-package.sh`: sequential shell around version control tools.
* The small tools that other packages carry (jlibtool, posh, pkg_get, pkg_conflicts, pkg_fake,
  gpak, emacs-pr-el, spade and others): vendored, or single-user command line programs.
* In spamd: option parsing, privilege dropping, the texts of the replies, the HMAC of sync
  messages and the set-up of sockets and multicast, the pflog filter of spamlogd, listing by
  spamdb, the fetching and parsing of lists by spamd-setup.

## 2. Modules

| module | models | used by |
|---|---|---|
| `GreyDb` | `struct gdata` and, as operators on one record, what every program writes to an entry and how the scan classifies it | `Greylist`, `SyncNet` |
| `Greylist` | the shared database over time: updater, scanner, spamlogd, spamdb, restarts, the pf table | `MCGreylist`, `GreylistProof` |
| `Passage` | what the database promises about a host: earned before granted, granted before pf gets it | `Greylist`, as the specification it implements |
| `Processes` | jail, updater and scanner with their pipes, the lock, and deaths | `MCProcesses`, `ProcessesProof` |
| `SmtpCon` | the connection table and the SMTP dialogue | `MCSmtpCon`, `SmtpConProof` |
| `GreyReader` | the line protocol on greypipe | `MCGreyReader`, `GreyReaderProof` |
| `TupleFeed` | what that protocol promises: messages become calls, one by one and in order | `GreyReader`, as the specification it implements |
| `SelectLoop` | the round of the jail's main loop with descriptor numbers, sets and the clock | `MCSelectLoop`, `SelectLoopProof` |
| `Sdl` | the lists in memory, the configuration connection's bytes, and pointers to lists | `MCSdl`, `SdlProof` |
| `SyncNet` | several hosts, each with the entries of `GreyDb`, and the datagrams between them | `MCSyncNet`, `SyncNetProof` |
| `Collapse` | spamd-setup's netblocks | `MCCollapse`, `CollapseProof` |

The modules cut the system along its interfaces. `Greylist` treats a database update as one step
because every program holds `O_EXLOCK` from open to close; `Processes` splits the same update
into taking the lock, working and releasing it, and forgets the entries. `SmtpCon` ends where
`nextstate` writes a tuple to the pipe; `GreyReader` starts there and ends where `Greylist`
begins, at the call of `greyupdate`. `SelectLoop` has the descriptors and the time and forgets what
connections say; `Sdl` has the lists and forgets both. `SyncNet` puts several databases together and
makes a scan one step. `Collapse` ends where the configuration connection of `Sdl` begins.

### Greylist and GreyDb

* `hosts`, `tuples`, `spamtraps` are the three kinds of key in the one hash file. `pcount` is
  `-1` (trapped) or `0` (any count), which is all the code distinguishes on these keys; `bcount`
  is never tested. A value of the wrong size cannot be written by these programs and is left out.
* `ReadClock(d)` is `now = time(NULL)`, before `dbopen` waits for the lock. `GreyUpdate`,
  `TwUpdate`, `SpamlogdUpdate` and `GreyScan` work with that reading, however old it is by then.
  `spamdb` reads the clock after it opened the file and needs no such step.
* `GreyUpdate` is the whole of `greyupdate`: `trapcheck` chooses the key, then the branches new
  entry (with the low priority MX rule) and existing entry.
* `GreyScan(seen, lost, unread, stuck)` is a walk: classification of every entry, the queue of
  changes (`DoChanges`, last in first out, over a table walked in any order), and the two address
  lists. `seen` are the keys it reached: the loop ends at an error of `db->seq` as at the end of the
  file. `lost` are the entries for which `addwhiteaddr` or `addtrapaddr` found no memory, `unread`
  the passed tuples whose host `db_notin` failed to look up, `stuck` the keys of which `do_changes`
  failed to write a change. `GreyScanBad` is the jump to `bad` after the keys `seen`, or no database.
* `db_notin` returns -1 for a failed lookup, and `greyscan` takes that for "not in the database"
  (`grey.c:531`, `610`). `Promotes` does the same: such a scan queues a white entry whatever the host's
  entry is, a trap too. `misread` is history, the hosts that the last scan failed to look up.
* `UpdateFails(d)` is an update in which `dbopen`, `get` or `put` fails: it is lost, nobody retries.
* `ConfigurePf(ok)` and `ConfigureSpamd` finish the scan. `Restart` is a crash of spamd and a new
  start: database and pf table survive.
* `Passage` forgets times, tuples and locks: of a host it keeps its standing, whether it has earned its
  passage, and whether pf lets it past. `IsPassage` says that `Greylist` implements it. A retry in the window is `Earn`, the
  updates of peers, spamlogd and spamdb are `Vouch`, `Trap` or `Delete`, a complete scan is `Scan`, a failed one
  `ScanFails`, and `configure_pf` is `Load`, or `GiveUp` when pfctl fails, as a restart between the two is. All else
  stutters. What it says beyond `PfWasEarned` and `TrapNotUndone` is that a host a complete scan promotes is on that scan's list,
  although promotion and list are built separately and either may fail, and that pf gets each list at most once. Only
  a host of `misread'` may be promoted from another standing than unknown, and miss the list. A
  trapped host with a passed tuple may be on the list (section 6), so `Scan` does not exclude it.
* A peer's update whose expiry is not ahead is refused by `strtonum` before anything changes and
  is therefore no action.
* `earned` is a history variable: it records why a host may be let through, at the moment the
  reason arises.

### Processes

* `pc` has a label for each place where a process can wait or be interrupted between calls.
  `lock` is `O_EXLOCK`; spamlogd is in the model because it competes for it.
* `greypipe` is a count, `trappipe` a sequence of lines, `trapbuf` the stdio buffer of `trapcfg`.
  `ReadConfigline` takes one line and only if the `select` at the top of the round said so.
* `Handles(sig)` says where `sig_term_chld` is installed: not between fork and `sigaction`, and
  for SIGCHLD not while `configure_pf` runs. A signal that arrives is delivered in the same step.
* The scanner's labels begin after the forks, `At(Scanner, "start")` is the window before
  `sigaction`, in which a SIGTERM ends the parent and leaves its children; `Supervised` is about
  the time after it. An earlier window, between the two forks, has the same outcome with one child.

### SmtpCon

* A connection is a record with the fields of `struct con` that decide control: state,
  laststate, whether `r` and `w` are armed, bytes left (`ol`), the command in `ibuf`, whether it
  is on a list, whether it is stuttered at, whether `mail` and `rcpt` are set. `nextstate` is a
  function from record to record, label by label; `handler`, `handlew`, `Accept` and `Drop` call it.
* Commands are classes: with argument, without it, and with nothing after the colon, which `setlog`
  tells apart. A command that fills `ibuf` before its line ends is a command like any other.
* `Drop` is every way to lose a connection from outside: end of file, an error, or MAXTIME. It may
  happen at any time, which includes every time at which the loop does it.

### GreyReader

* Every message is written with one `fflush`, so a message enters the pipe whole; lines leave it
  one by one. `helo`, `ip`, `from` are the numbers of the messages the buffers were filled from,
  which makes mixing two messages visible.
* The tuple of a client that said no HELO has a short `HE:` line, which is dropped; the rest is then
  skipped and the client is never entered. `EachMessageOnce` is about all other messages.
* `cip` starts as what is on the stack: anything but the low priority MX.
* A peer's tuple has a HELO, because the peer's own `greyreader` took it; `sync_recv` does not look. That
  `twupdate` refuses an expiry in the past, and may fail, is in `Greylist` and `SyncNet`: here a call is a call.
* `TupleFeed` forgets pipe, lines, reader state and buffers. `IsFeed` says that `GreyReader` implements
  it: a step that writes a message is `Put`, the step that reads the last line of one is `Take` (for a
  tuple without HELO, whose lines are skipped in state 0, a `Take` without a call), all others stutter. `LastTarget` is the honest form of the
  promise about `cip`.

### SelectLoop

* `t` is the reading of the clock at the top of the round; `now` moves on only in `select`, or while
  `do_config` blocks in `read`: the loop itself takes no second.
* Descriptor numbers are reused as the kernel does it, lowest first. The listening sockets and
  pipes were opened before, so they have numbers of their own, below. `words` is the memory of the
  sets: `calloc` when `max` grows, else only the words up to `max` are cleared, and what is behind
  them stays (`Stale`).
* Peers act in `select` and, on a configuration connection, in `read`. What they do at another time
  is noticed no earlier, so those interleavings are left out.
* `SelectReturns` may report any subset of the writers, because a peer's window is its own affair.
  `SelectInterrupted` (EINTR) happens only after a second has passed; an earlier one comes back
  to the same `select`.
* The property is about `read`. `write` to a client, `fprintf` to greypipe and `accept` are taken not to block;
  what a full greypipe does is in `Processes`.
* `Clients` is the whole `for` over `handler` and `handlew`; each connection ends or goes on reading
  or writing, from `t` or a second later (the stutter). When both calls happen in one round, the write is
  one of the second call's outcomes.

### Sdl

* A line is a list's name and its set of addresses, in two halves, so that a connection can be cut
  off between any two bytes that matter: `ParseLine` takes what a half line may be read as.
* `Replace` and `AppendList` have the three outcomes of `sdl_add`: it works, an address does not
  parse, malloc fails. `Freed` is what `sdl_free` leaves in the middle of the array. `overrun`
  notes that `blacklists[blu].tag = NULL` was written behind the array (`Chunk`, 128 in the code);
  `moved` counts how often `realloc` moved it.
* `Lookup(ip)` are the possible results of `sdl_lookup`: all lists with the address, or none when its
  array of results finds no memory. A partial result needs 128 lists and a second `realloc`.
* A pointer remembers which array it points into, and (as history) which list it was taken for.

### SyncNet

* The entries, and the operators on them, are those of `GreyDb`; each client sends one mail, so its
  tuple is keyed by its address. All hosts have one clock: the skew between machines is not in it.
* `GreyUpdate` has all of `greyupdate`: the recipient that `trapcheck` finds (`bait[h]`: it is a spamtrap of
  host `h`, or not of its `alloweddomains`), the low priority MX rule, a new and an existing tuple, and
  `Told`, what the peers are sent. Any host that baits a client sends TRAPPED, the low priority one or another.
  `bait` is chosen once, in `Init`; `spamdb` changing it is in `Greylist`.
* A datagram is received, duplicated (received and still under way) or lost. `Late` bounds its age;
  a new contact is made only with fewer than `MaxNet` under way, which bounds no reply.
* An update of the database may fail: `ContactFails` of a host that is up, or `Lose` of a datagram that
  arrived. A scan that the database answers with errors is in `Greylist` only.
* A conformant client tries every other host before the low priority one (`Attempt`); `unheard`
  is history: the clients whose present attempt was not reported to the low priority host, because a
  host was down, let them pass, held them as trapped or failed to record them, because the datagram was
  lost, or because the tuple expired. `first` is the first contact that a host recorded.

### Collapse

* A word has `W` bits; a line is a pair of addresses; the end entry is `After(last)`, which wraps as
  the code's does. `parse_netblock` compares the pointers `start` and `end` where it means the
  addresses, so reversed ranges occur (`odd`).
* `Sweep` takes the entries of one address, as the inner loop does; in its last round the loop reads
  one entry behind the array, which counts if its address happens to be the same (`Stray`).
* `Range2CidrList` is a recursive function over `MaxBlock` and `MaxDiff`; `Printable` is where the
  printing loops stop, at a block with address 0.

## 3. Runs

| run | what it shows | distinct states |
|---|---|---|
| `Greylist` | `TypeOK`; `PfWasEarned`: list and pf table hold only hosts with a reason; `TrapNotUndone`; `IsPassage`: implements `Passage`; `PfConverges`: the pf table becomes the set the database lets through | 349,000 |
| `ProcessesCircle` | `TypeOK`; `LockIsShort`; `Supervised`; `EveryoneComesRound`: no live process waits for ever | 345,000 |
| `ProcessesTraps` | `GreytrapConverges`: the jail's list becomes the set of trapped hosts | 1.2 million |
| `SmtpConGrey` | `TypeOK`, `Counters`, `Dialogue`, `StutterBound`, `GreyNeverSends`, `AcceptedIsReported` | 2.5 million |
| `GreyReaderSafety` | `TypeOK`, `EachMessageOnce`, `SyncMarksItsTuple`; `IsFeed`: implements `TupleFeed` | 69,000 |
| `SelectLoop` | `TypeOK`: descriptors fit their sets and are not shared; `OnlyFreshBlocks`: only a configuration connection of the same round can block the jail in `read`; `Punctual`: MAXTIME holds while somebody is written to; `PipesAreServed` | 940,000 |
| `SdlLists` | `TypeOK`; `InForce`: lookups find what the last lines said, and only a failed replacement hides a list; `ReplyIsSafe`; `OneSession` | 647,000 |
| `SyncNetLossy` | `TypeOK`; `EarnedSomewhere`: who passes has waited; `TrappedForAReason`: whom the low priority host traps mailed a spamtrap of some host, came first, or was not heard of for a reason it names; `Quiet`: hosts fall silent unless clients keep coming | 1.7 million |
| `CollapseExact` | `TypeOK`; `Exact`: blocked is black minus white; `SweepExact`: at every step; `RangesApart`; `Shortest`: fewest blocks | 1.3 million |

Runs that find what a comment or the manual says violated (`findings` in `PROJECT.json` quotes the
lines):

| run | what happens |
|---|---|
| `ProcessesRelease` | the empty list is rejected, the last trapped host stays on the jail's list |
| `CollapseUnlisted` | a white range up to 255.255.255.255 takes nothing out of the blacklist |
| `SyncNetDown` | a conformant client is trapped because the other host was down |

Each property of a passing run has a mutant in `PROJECT.json`: a plausible mistake, written as a
second definition beside the right one ("Fault variant" in its comment), with which the property
fails.

### Bounds and why they are enough

* `Greylist`: one host and one mail. Hosts do not interact except through whole-list operations
  (an entry is touched only for its own address), and two tuples of one host matter only for the
  order of the change queue. The clock has three readings and the times are scaled so that a wait,
  a tuple's end and a white entry's end can fall on different readings. One of the two writers waits
  for the lock at a time (`MaxWaiting = 1`), the scanner besides. One restart, or one scan that the
  database answers with errors (`MaxFaults = 1`); scans that find no memory, updates that fail and
  failing pfctls are not bounded. The theorems have none of these bounds.
* `Processes`: pipes of one or two messages fill at once; larger ones only delay the same states.
  Two hosts are needed where a list could be replaced by an older one (`ProcessesTraps`). `ProcessesCircle`
  kills any process at any time; `ProcessesTraps` is about three processes that live.
* `SmtpCon`: two slots, of which one may be stuttered at (`MaxBlack = 1`), so that a second
  blacklisted client meets the limit; `Spare = 1` puts the switch to full writes between one and two
  clients; replies of two bytes are the shortest that can be sent in parts.
* `GreyReader`: four messages cover every ordered pair of kinds with something before and after it.
  The run stops when all are read.
* `SelectLoop`: two clients, a configuration connection and one pipe fill both a table of two slots
  and the descriptor numbers; two bits to the word put the fourth number into a second word, so
  the sets grow, shrink and keep stale bits. `MAXTIME = 1` and a clock of three readings let a
  connection become overdue while another one reads. There is one pipe because the two are treated alike.
* `Sdl`: four lines over four lists fill an array of three, replace a list, fail, and grow the array;
  one slot keeps pointers across all of it.
* `SyncNet`: one client and two hosts. Clients do not interact, but for the shared network, whose bound
  `MaxNet` stops only new contacts. Times of one or two and a tuple's life of three, three ticks: a tuple
  entered at 0 and retried at 2 passes in a scan before it expires at 3, is put into pf, and spamlogd's
  WHITE reaches the other host; a tuple that is not retried expires. The recipient is a spamtrap on both
  hosts, on either, or on none. One fault (`MaxFaults = 1`): an outage, a lost datagram or a failed update.
  Each reason in `TrappedForAReason` occurs by itself: without any one of them the run finds a violation.
* `Collapse`: three bits and three lines: any two ranges may touch, overlap or nest with a third, at
  both ends of the address space; the counts reach 3.

`CHECK_DEADLOCK FALSE` is in the runs that come to their bounded end by design: all messages read
(`GreyReader`), a jail that has died (`Sdl`), the lists sent (`Collapse`).

### Fairness

* `Greylist`: `greyscanner` is an endless loop, so its clock reading and `configure_spamd` are
  weakly fair. A complete scan and a successful pfctl are strongly fair: memory and pfctl may fail
  again and again, but not every time. Scans that the database answers with errors are bounded. Nothing is assumed of clients, peers or the administrator.
* `Processes`: each process goes on while it can. Taking the lock is strongly fair because `flock`
  wakes those who wait. Deaths are never required.
* `SelectLoop`: weak fairness of the loop's own steps, because the process runs; strong fairness of
  each accept, because descriptors run out again and again but a client's accept does not fail
  for ever; and the peer of a configuration connection in whose `read` the jail waits sends or goes away.
  The last is an assumption about the administrator's host: the code itself has no limit there (section 6).
* `SyncNet`: a datagram is received or lost, by weak fairness of the two together. Nothing else.
* `SmtpCon`, `GreyReader`, `Sdl` and `Collapse` state safety only.

## 4. Proofs

All theorems hold for every value of the constants that satisfies the named assumptions of the
modules (times are natural numbers, capacities positive, `NoEntry` is no record, there is a host
besides the low priority MX, and so on). Each proof has an inductive invariant, made of named
parts, with one step per action.

* `GreylistProof`. `TypeCorrect` by induction over the actions. `OnlyEarned`: `PfWasEarned` alone
  is not inductive; `EarnedInv` adds that a white address entry belongs to a host that earned it
  (`HostsEarned`) and that a tuple whose pass time is before its expiry does too
  (`TuplesEarned`); by lemma `PassedBeforeExpiry` the scan promotes no other, because it tests
  `expire <= now` first. `TrapsHold`: a scan replaces an address entry only where there was none, or where the
  lookup failed (`misread`).
  `Implements` is the refinement of `Passage`: `EntryStep` maps the updates of one host, `ScanReviews` the changes of
  a scan. It needs `EarnedInv`, because those promoted have to have earned it, and
  `ScannerWaits`, because a scan that waits for the lock must not still have a list to hand over.
* `SyncNetProof`. `TypeCorrect`, then two arguments. `OnlyPatient`: the reason why a host lets a
  client pass is in its tables or in a datagram to it, so `EarnedInv` says of both that a white
  entry, a WHITE datagram and a tuple that can still pass are of a patient client, and that a GREY
  datagram is not older than the client's first contact. `TrapsHaveReasons`: `HeardInv` says that
  while a client goes from host to host the low priority MX has its tuple, or a report is under
  way, or one of the reasons of `unheard` has arisen, and that a TRAPPED datagram to it is of a client
  whose recipient is a trap on some host (`ToldOfBaited`, `GreyUpdateBaited`); apart from that the trap
  rule fires only for the low priority MX without a tuple.
* `ProcessesProof`. `LockNeverHeldWaiting` is inductive with the types. It is what breaks the
  circle of pipes and lock: whoever holds the lock is about to release it. `NoLateOrphans` needs
  only that dead processes take no step.
* `SmtpConProof`. One invariant `Inv` of types, counters, dialogue and the numbers of bytes carries
  the first four theorems; `NextstateIsFine` goes through `nextstate` label by label, and the
  counting uses the library's theorems on cardinality. `TarpitIsBounded` needs `CountersAreRight`,
  because `initcon` compares `blackcount` and not the number of connections that stutter.
  `GreyIsTurnedAway` and `RecipientsAreReported` are the two halves of `Proper`, which
  `NextstateIsProper` shows of every path through `nextstate`: only together, because a recipient
  accepted in state 6 is still pending when the connection listens in state 5.
* `SelectLoopProof`. The sets are computed at the top of the round and tested after accepts and
  closes have changed what they are about. `Timely` says what is true while `select` waits,
  `InWords` that the memory of the sets holds every open descriptor, and `Honest` that after it
  the sets are right about the configuration connection if it is the one that was asked about; so
  only one accepted in the same round can block (`OnlyFreshBlock`). `JailIsPunctual` follows from
  `Timely`.
* `SdlProof`. `ListInv`: each name occurs once (`Once`), holds the addresses of its last accepted
  line (`Named`), occurs if and only if one was accepted (`Known`), and only a failure leaves an
  element without a name (`Whole`); lemma `Search` shows what the loop of `sdl_add` then finds.
  `PointInv` adds that pointers stay inside the array and `SessionInv` that buffer and remaining
  bytes together are the line of the present connection.
  `TypeCorrect` rests on `Bounds`: `Used` is the number of lines that `sdl_add` has had, or will
  never get because their connection was lost; each adds at most one element and grows or moves the
  array at most once, so lengths and counters stay within the number of lines (`Sized`).
* `CollapseProof`. `Agreed` ties the entries to the lines: the running sum of the signed entries at
  an address is the number of ranges that cover it (`Consistent`). `UpToDate` says that the sweep's
  counters are that number for all addresses from the last entry reached to the next one;
  `SweepIsExact` and `RangesStayApart` follow with `InOrder` and `Behind`.
  The second half is about `Range2CidrList`. Two netblocks are nested or disjoint (`NetblocksNest`), and
  the block the loop takes at an address is the largest netblock of the range that begins there
  (`BitsIs`, `NextBlock`: no block of the range that begins earlier reaches over it, `Clean`).
  `FromExists` shows that the recursion defines a function, and `CidrList` what that function returns.
  The library's induction theorems take an operator, which the provers cannot instantiate, so both
  argue by a least counterexample (`LeastExists`): were the claim wrong for some address, there would be a last such
  address, and one unfolding there contradicts it. `CidrsAreShortest` is that lemma for the ranges of
  the sweep. `BlockedIsListed` puts everything together: `Ends` adds that no range ends at the `Top`,
  so nothing is open at the end, and without address 0 the printing loops stop at no block.
  The last part is about the counters and holds for every line, also the reversed ones and those whose end
  wraps to address 0 (`AddAnyLine`, `Shifted`), for which `Agreed` does not: a line moves the running sum of its colour
  by at most one at any address (`Total`), and a range begins only where black rises or white falls
  (`Rises`, `StartsAreRises`), which each line does once. So there are no more ranges than lines,
  for which `collapse_blacklist` allocates (`Bounds`, `TypeCorrect`).
* `GreyReaderProof`. `PipeInv`: the pipe is the rest of one message and then whole messages up to the
  last one written, each line after its predecessor (`Follows`). `ReaderInv`: `Reading` is the message
  whose lines are being read; state and buffers are those of the lines read of it, and between two
  messages the reader is in state 0 with `sync` set. `CipInv`: `cip` is the last target there was.
  `CallsInv`: the calls so far are those of the messages before `Reading`. `EachOnce` and `SyncMarks`
  follow. `Implements` is the refinement: under the mapping, `Init` gives `TupleFeed`'s, a `Write` is a
  `Put`, the step that reads a final line is a `Take`, and every other step leaves log, taken and
  calls alone; `taken` is a cardinality, which `PipeInv` shows to be `Reading - 1`.

Only model-checked is liveness (`PfConverges`, `EveryoneComesRound`, `GreytrapConverges`,
`PipesAreServed`, `Quiet`), which depends on fairness and is out of the prover's reach. Every
invariant of the passing runs, `TrapNotUndone` and the refinements of `Passage` and `TupleFeed` have a
theorem.

## 5. Plan

1. An abstract specification of the jail's lists, a function from names to addresses that a
   complete line replaces at once, implemented by `Sdl` as long as no replacement fails; `Named`,
   `Known` and `Once` of `SdlProof` are most of that refinement.
2. Skewed clocks in `SyncNet`.

## 6. Divergences met while modelling that have no run of their own

The models do what the code does here; their properties exclude these cases or state what is left.

* A failed `db->get` in `db_notin` counts as "not in the database": the scan puts a white entry in the place
  of whatever the host has, a trap too (`grey.c:531`, `610`).
* A failed `db->seq` ends the walk as if it were complete: pf and the jail are given the lists made so
  far (`grey.c:563`), and hosts drop out of both until the next scan.
* An update of the database that fails is not repeated, and its tuple is not told to peers (`grey.c:905`).
* The low priority MX rule looks up the tuple only, and overwrites a white entry of the host with a
  trap (`grey.c:830`).
* Before `sigaction` a SIGTERM or a child's death leaves other processes behind (`grey.c:1179`).
* `sync_recv` passes on an empty HELO, whose short line would leave the SYNC mark to the next tuple; peers
  that run this code send none (`sync.c:320`, `grey.c:968`).
* `sdl_lookup` that finds no memory finds no list: the client counts as not blacklisted (`sdl.c:227`).
* `greyscan` acts on a trap entry and on a passed tuple of one host in the same scan: the host is put
  into `<spamd-white>` and on the jail's list (`grey.c:584`, against `spamd.8:71`).
* A white host that mails a spamtrap keeps `expire` and is trapped for the rest of its white life
  (`grey.c:872`, against `grey.h:23`).
* `dequotetolower` has a stray semicolon and drops the first character of a recipient without
  brackets, which is then not found among the spamtraps (`grey.c:294`).
* A child's death while `configure_pf` waits is lost (`grey.c:238`, against the comment at 106).
* `CO:` without an address does not reset `cip`; the low priority MX rule may use an earlier
  connection's target (`grey.c:968`). `TupleFeed` says so in `LastTarget`.
* A replacement that fails leaves a hole in the middle of the array of lists: the lists behind it are out of
  sight, and the next search compares with a missing name (`sdl.c:160`, `62`).
* With a full array, the terminator is written behind it (`sdl.c:154`); `realloc` may move the
  array while connections point into it (`sdl.c:81`). Both need 128 lists. `sdl_lookup` has the
  same edge when a client is on 128 lists.
* A configuration connection that is closed half way is parsed as if complete (`spamd.c:361`); a
  mask that lost a digit covers more than was meant.
* There is no time limit on a configuration connection, and while it is open no other is accepted
  (`spamd.c:1424-1428`).
* `conffd` is tested against a set from before it was accepted, which may be stale or too short
  (`spamd.c:1493`): a `read` on a silent connection then holds up the jail.
* A failed `accept` skips the rest of the round (`spamd.c:1464`, `1486`).
* A TRAPPED and a WHITE datagram that cross leave two hosts with different entries, and a promotion by
  a scan is not sent to peers (`grey.c:610`): hosts agree only through spamlogd and new tuples.
* A netblock or range ending at 255.255.255.255 ends at address 0 (`spamd-setup.c:214`, `227`); a
  list stops being printed at a block with address 0 (`spamd-setup.c:612`); a reversed range is taken,
  because the pointers are compared (`spamd-setup.c:228`); the sweep reads one entry behind the array
  (`spamd-setup.c:564`).
