# A TLA+ model of a3sdn

a3sdn is a small software-defined network: one controller process and up to
seven switch processes in a line. This directory holds TLA+ modules for it, TLC
configurations that check them on small networks, and proofs that TLAPS checks
for networks of every size. Source lines below are those of `src/`.

## 1. The system

### Components, their state and their operations

| Component | State | Operations that change it |
|---|---|---|
| Controller process (`controller.cpp`) | `switches` (what is known of each switch), `clientSocketConnections`, `switchFDMap`, counters, `errno` | poll and accept; per client socket: OPEN, QUERY, end of file; exit |
| Route computation (`Controller::makeFlowEntry`) | none: reads `switches` | computes the rule that answers a QUERY |
| Switch process (`switch.cpp`) | `flowTable`, `unsolvedPackets`, counters, the delay, `errno` | read a traffic line, read the left pipe, read the right pipe, read the socket (ACK, ADD, end of file), resolve parked packets, exit |
| Flow table (`flow.h`) | entries with a source range, a destination range, an action, a counter | first match wins; add unless present |
| Gate (`gate.cpp`) | counters | `getMessage` (one `recv`), `list`, `exit`, SIGUSR1 |
| Connection (`connection.cpp`) | a pipe per direction between neighbours | open, write, read |
| Packet, traffic file, Port, IPRange, SwitchID | none | conversions of text |
| Address (`address.cpp`) | none | a DNS lookup |

### How they interact

A switch connects to the controller over TCP and sends OPEN with its id, its
neighbours and the address range it serves. The controller stores this and
replies ACK. For a packet header (from the switch's traffic file, or a RELAY
from a neighbour) the switch looks for the first matching rule and delivers,
forwards or drops. Without a rule it sends a QUERY and parks the header in
`unsolvedPackets`; the controller answers with an ADD, the switch stores the
rule and goes through everything it has parked. Forwarding writes a RELAY into
the pipe `fifo-i-j`. No memory is shared; every process is single-threaded and
polls its sources without blocking.

### What is hard about it

* Processes run concurrently, start in any order, end at any time and may be
  started again while the controller still has the old connection.
* A read takes everything that has arrived and handles one packet of it, so
  whether a packet is lost depends on timing.
* `errno` is checked after calls that did not fail, so a value left by an
  earlier call can end a process.
* The controller erases from the vector it iterates over.
* Whether a stale `errno` does harm depends on the order of a pass, on what the
  neighbours do between two system calls, and on pipes being full or empty.
* Processes make the same pipes at the same time when they start, in a directory
  that may hold the pipes of an earlier run.
* An address is text, an int and an unsigned int in turn, at every hop.
* Rules never expire, so tables of different ages are combined along a route.
* Route computation recurses over neighbours with no record of where it was.

### What makes each component correct

* Switch: a parked packet has no matching rule; traffic for its own range
  stays; rules are unique; the printed counters explain each other; it ends
  when the controller does and not before.
* Controller: it handles QUERYs of registered switches only; what it knows of
  an acknowledged switch is current; sockets are neither lost nor closed twice;
  dead ones are closed; it survives its switches.
* Route computation: it ends; the answer is the nearest server; it matches the
  packet asked about; the next hop agrees.
* Switch, inside a pass: a delay is kept and ends; `errno` is clean when it is
  tested, unless a pipe was full.
* Network: a RELAY approaches its destination, if ranges do not overlap; at most
  one answer per question; every switch that starts is acknowledged, unless a
  RELAY that was cut costs the ACK; a packet is delivered under the address it was
  sent to.
* Start: the pipes are open before the controller knows of the switch; no process
  ends because of what another one has made.

## 2. Modules

```
Flow <- Routing <- Transport <- Controller, Switch <- A3sdn <- A3sdnSession <- MCA3sdn (TLC)
  |        |                                            |            \- INSTANCE Session
  |        |- RoutingChain (TLC)                        \- A3sdnProofs <- A3sdnSessionProofs
  |        |- RoutingProofs <- RoutingChainProofs,                      <- A3sdnRegistryProofs
  |        |                   A3sdnProofs
  |        \- Addresses <- MCAddresses (TLC), AddressesProofs
  \- Values <- Addresses
           \- Startup <- MCStartup (TLC), StartupProofs

Stream <- SwitchPass <- MCSwitchPass (TLC), SwitchPassProofs
```

The network is modelled from four sides. A3sdn has all processes and channels,
with a handler as one step. SwitchPass takes one switch apart into its system
calls and leaves the routing out. Addresses follows the numbers in packets
through all conversions and leaves counters and timing out. Startup is
what happens before the main loops.

**Flow** - rules, packets, the lookup `FlowEntryIndex`, `AddRule`. Every entry
the program builds has the source range `MIN_IP..MAX_IP` and the priority
`MIN_PRI`, so a rule carries the other fields and `Matches` compares the source
with the constants. The orderings `<` and `>` of `flow.h` are never called.

**Routing** - `MakeFlowEntry(registry, s, packet)`. The program calls itself for a
neighbour, builds an entry there and copies its range back, hop by hop. Here
`Search` finds the switch whose range that is and the range is copied once.
`switches` is a vector kept sorted and unique by id and searched by id only, so
it is a function from ids here. `Round` is one call of `makeFlowEntry` for each
(switch, came-from) pair, given the outcomes of the calls it makes; `Search` is the
recursive function of the outcomes of calls k deep. Its bound is `Fuel`, the number
of pairs: a search that uses more has come to the same pair twice and never
returns; the controller then dies of its stack (`SearchLoops`).

**Transport** - the kernel's side, read off the calls the program makes: the
connections (`pending`, `up`, `down`, `reset`) and the pipes (`fifo`, `writers`).
One connection exists for each start of each switch. Three facts matter.
(1) `getMessage` does one `recv` and keeps the text up to the first NUL. Packets
are sent with their NUL, so of the `k` packets that had arrived the first is
kept: `AfterRecv(q, k)`, with `k` chosen freely. (2) RELAYs are written without
NUL and `check_connection` reads up to 1024 bytes. What it parses is the
concatenation, of which the first packet's fields come out right (`stoi`
stops at the `RELAY:` that is glued to the last number). A read takes
`RelaysPerRead` RELAYs, all there are if there are fewer, and may end inside the
next one: the pipe is then in `torn`. The read after that starts inside a packet; its
text is no packet, and parsing it leaves EINVAL in `errno`. (3) A process that
ends with unread data resets its connection. The first `send` to it goes
unnoticed; after the reset has come back a later `send` leaves `errno` set or
raises SIGPIPE, and `getpeername` fails.

**Controller** - `PollFails`, `Accept`, `PollIdle` are the top of the loop;
`Serve`, `VisitIdle`, `Disconnect` are the visit of one client socket. Since the
switches run during a pass, each visit is a step. `sweep` holds the slots that
the running range-for still visits, and `index` is the counter `i` of the pass.
`erase` moves later elements one slot forward but not the iterator and its end:
the next client is skipped and the last slot, which keeps a copy of the last
client, is visited again (`Shifted`). In the copy's visit the socket may have been
closed already; then `recv` fails with EBADF and nothing happens. The erase is by
position, `begin() + i` (`controller.cpp:188`), as in `Erase`. When the client in
the copied slot has ended as well, `i` is the size of the vector or more, and the
erase is **undefined behaviour**. The model takes what libstdc++ does, compiled
with g++ at -O0, -O2 and -O3: nothing is moved and the last element is dropped. A
library that checks the position, or another one, may end the controller there.

**Switch** - `Start`, `ReadTraffic`, `RecvRELAY`, `RecvSock`, `ResolveStep`,
`ControllerLost`, `Exit`. A handler does at most one `send` or `write`, which is
the only thing other processes see of it, so one step per handler is enough;
`resolveUnsolvedPackets` may write many RELAYs and is one step per parked packet
(`iter` is its position and keeps the other handlers waiting). The program looks
at its sources in a fixed order, traffic file, left pipe, right pipe, socket;
the model lets them happen in any order, which includes that one. Where the order
decides what an `errno` does, it is kept:

* A read that starts inside a RELAY leaves EINVAL (`RecvTorn`); `einval` says from
  which pipe. After one from the left only the right pipe and the socket are
  handled, after one from the right only the socket. `check_sock` then throws away
  the packet that `recv` has read, an ACK or an ADD, without looking at it
  (`switch.cpp:324`, the third case of `RecvSock`), or finds none (`SockIdle`). A
  RELAY from the right that is forwarded meanwhile clears the EINVAL if the `open`
  fails.
* The left pipe is read just before the right one, and its EAGAIN or EINVAL is still
  in `errno` when a RELAY from the right is forwarded: `openSendFIFO` exits
  (`RecvRELAYFails`). EAGAIN *may* be there when the left pipe's writer holds it
  open, so both outcomes are in `Next` (the left pipe may have held a packet).

EAGAIN of the right pipe may replace the EINVAL of the left one and so save the
packet of the controller: `RecvTorn` allows both. How the values follow each other
call by call is the subject of SwitchPass.

**A3sdn** - composes them and states all properties of the network. **MCA3sdn** -
topologies, ranges and traffic for TLC. **RoutingChain** - a registry driven by
arbitrary OPENs of a chain, to check `MakeFlowEntry` against `Expected`, which
picks the nearest server without searching.

**Session** - the contract between the controller and the switches: open, register,
acknowledge, ask, learn, close, stop, without connections, queues or loss. A
switch may learn a rule without having been acknowledged, because the ACK may be
thrown away as described above.
**A3sdnSession** maps the running network to it (`Contract`): a switch is a member
from its first ACK, the controller's registry are the registered ids, the counters
of QUERY and ADD are the questions and answers, the length of the flow table are
the rules. `ContractKept` says that A3sdn implements it: never an
acknowledgement or a rule before the registration, never an acknowledgement after
a rule, never two rules for one question.

**Stream** - packets in a pipe or a socket as bytes: a read takes up to
`BufferUnits`, and the next one may start in the middle of a packet.

**SwitchPass** - one switch. `stage` is the place in the loop body
(`switch.cpp:196-253`): `Poll`, `CheckTraffic`, `CheckConnection` for the left and
then the right pipe, `CheckSock`, and `ResolveUnsolved` inside it; `OpenSendFIFO`
and `Write` are separate steps, after which the pass goes on where `relay.after`
says. `errno` is a variable that each of them sets or tests as the code does. A
packet is the port it is for and a rule the port it serves. The environment is the
clock, the neighbours (send what `Relayed` allows them, read, end, start) and the
controller, which sends the ACK first and a rule for each question. A neighbour may
also send a RELAY that goes straight back to it, as one with older rules does.
`met` remembers that a RELAY was sent behind an unread one. `opened` counts the
descriptors that nothing closes. DROP rules and the end of the controller are
left out; so is the text that an empty read leaves in the buffer (`gate.cpp:120`
writes to `tmpbuf[-1]`; in the first pass the buffer has never been written):
it is taken to be no packet.

**Values** - `std::stoi` (`Fits`), the cast to `uint` (`ToUint`, modulo twice
`INT_MAX + 1`), the cast of a port to 16 bits, and the tests of `SwitchID`,
`parseIPRange` and `Port`. A text is the number that stoi reads in it, or, for a
switch name, "null", a name with a number, or neither.

**Addresses** - `ReadLine`, `RecvRELAY`, `RecvQUERY`, `RecvADD`, `ResolveUnsolved` of
all switches and the controller, where each packet and each parked packet is text (`TextOf`) and
each handler reads it (`Parses`, `HeaderOf`), with the routing of module Routing.
Connections are sets of packets; a packet that is never taken stands for one that
is lost. All switches are registered. An ADD starts `ResolveUnsolved`, which takes one
parked packet a step (`iter`), the switch doing nothing else meanwhile, and which
ends the process at the first text that stoi refuses.

**Startup** - `main`, the constructors and `start` up to the loop, for the switches
and the controller at once: a step for each `mkfifo`, then the opening of the
pipes, the signal mask, the traffic file, `connect`, `OPEN`; the controller's
bind and its handling of OPEN, where it looks the host name up again. `errno` is
tested by `makeFIFO`, `openReceiveFIFO`, `getSignalFD` and the poll. A host
is known by what its lookup gives: an IPv4 address, an IPv6 address (which
`inet_pton(AF_INET, ...)` refuses, although the comment at `switch.cpp:171` speaks of
both), or nothing. A lookup that succeeds may leave any value of `LookupErrno` in
`errno`, as getaddrinfo is free to do. What the controller's own lookup in
`RespondOPEN` leaves may reach the next poll (`PollFails`), make it throw away the
packet of the next client if it is EINVAL (`controller.cpp:208`), or be cleared by
a client that has sent nothing (`VisitIdle`).

Definitions named as a slip in a comment (`NoReset`, `EraseNext`, ...) are not
part of the model: they are the wrong versions that show that a property can
fail.

## 3. What TLC checks

| Run | Instance | Properties | Distinct states |
|---|---|---|---|
| chain | sw1 - sw2 - sw3, one traffic line each | TypeOK, UnsolvedUnmatched, OwnTrafficStays, ForwardPortExists, NoDuplicateRules, AnswersBounded, ListingAddsUp, NoBounce | 367 000 |
| restart | two switches, 2 starts each, sw2 may move; everything may end | ContractKept (refinement of Session), QueryFromRegistered, RegistryCurrent, AdmittedIsOwn | 374 000 |
| ring | a ring of three and a fourth switch, nSwitches = 3, 2 starts each | ClientsConsistent | 518 000 |
| live | two switches, 2 starts each, everything may end, fair loops | EverySwitchAcked, SwitchesFollowController, DeadClientsLeave | 19 200 |
| routing | chain of four, all ranges over 0..2, every registry | AnswerIsNearest, AnswerResolves, HopsAgree, SearchEnds | 2 401 |
| pass | one switch between two neighbours that may end, a delay, pipes that fill up | TypeOK, PollErrnoExplained, DiscardNeedsTwoRelays, OpenedByPackets, DelayRespected, StaleErrnoFromLeft, ReadsWholeFile | 965 000 |
| addresses | chain of three, every file of three lines out of nine | TypeOK, DeliveredAsWritten, OthersSendNumbers, EndsOfNegative | 449 600 |
| startup | two neighbours and the controller, 14 and 3 command lines | TypeOK, ReadersBeforeOpen, ErrnoEndsExplained | 62 000 |

What the less obvious ones say:

* `PollErrnoExplained`: the errno test at `switch.cpp:202` can only be hit
  after a RELAY met a full pipe. All other values are cleared within the pass.
* `NoBounce`: a RELAY goes towards the one switch that may serve its destination,
  whenever the rules on its way were made. This is about ranges that do not
  overlap, counting all a switch is ever started with; with others packets do
  circle, see below.
* `EverySwitchAcked`: a switch whose OPEN is on its way is acknowledged, unless it or
  the controller ends or the ACK is there while a cut RELAY has left EINVAL.
* `ClientsConsistent`: an erase by position in a walk that visits shifted slots still
  takes the client whose end was seen, also when two end in one pass.
* `StaleErrnoFromLeft`: `openSendFIFO` ends a switch because of an older `errno`
  only while it forwards a RELAY that came from the right (to the left, or back),
  and only if it has a left neighbour, unless a pipe was full. So the death shown
  by `selfexit` cannot happen to the switch at the left end.
* `DiscardNeedsTwoRelays`: a packet of the controller that recv has read whole, and
  as the first, is thrown away only if a RELAY has been sent into a pipe that still
  held another, so that a read cut it and its rest left EINVAL in `errno`. What was
  read behind a first packet is lost in any case (`parked`) and is not counted.
* `OpenedByPackets`: descriptors that were opened for RELAYs and packets still
  parked are accounted for by route lines and RELAYs read: no packet opens a
  pipe twice, not even one that was parked and resolved later.
* `DeliveredAsWritten`: four conversions lie between the traffic file and the
  delivery; a packet is still delivered under the numbers in the file, and
  one from a source out of range is not delivered.
* `OthersSendNumbers`, `EndsOfNegative`: negative numbers become unsigned numbers
  that stoi refuses. They match no rule, so they are parked and asked about but
  never forwarded: they end the switch that read them, when it goes through
  its parked packets, or the controller, and nobody else.
* `ReadersBeforeOpen`: a switch that sends OPEN holds the pipes from its neighbours
  open, so the controller makes no rule towards a switch that cannot be written to
  yet. The rule may still lead to a switch that has ended since.
* `AdmittedIsOwn`: DELIVER entries are made from the registered range, which an older
  process of the switch may have announced, yet a switch only admits its own range.

Four runs show that the code does not do what its documentation or comments say
(TLC finds the property violated):

* **disconnect** / `ControllerSurvives`. `README.md` requires that switches may
  disconnect. A switch that ends with a packet of the controller unread resets
  the connection; `getpeername` (`controller.cpp:175`) fails, and the `errno`
  it leaves ends the controller at its next poll (`controller.cpp:126`). The
  same happens with the binary: the controller exits with status 107 (ENOTCONN).
* **selfexit** / `SwitchesSurvive`. A middle switch exits when it forwards a RELAY
  from its right neighbour while its left pipe is open and empty (the `errno` of
  `connection.cpp:79`). This also happens with the binary. The switch may leave
  an ADD unread and so reset its connection; then the controller exits and every
  other switch follows, without any user. The network may stop, and the runs of
  A3sdn that allow this do not check for deadlock.
* **parked** / `ParkedIsSolved`. A QUERY or ADD read together with an earlier
  packet is lost and the packet stays parked. The repository's report shows the
  effect (`cmput379_assignment_3_report.pdf`: 7 QUERYs sent, 6 ADDs received).
  The counterexample has fair loops; its switches do nothing wrong but
  time their packets.
* **relays** / `EachRelayHandled`. Two RELAYs read together count as one (the
  report: 21 RELAYs sent, 19 received).

The models behave like the code in these points as well. No run is made of
them; each is a behaviour that a reader can see in the definition named.

* `Controller`, `Routing`: the DROP entry for an invalid source does not match it,
  so the packet is never dropped, and valid packets for that destination are. A
  DROP rule made while the serving switch was not connected stays for ever.
* `Controller`: a switch that comes back with another range is registered anew,
  but rules made before stay, and two neighbours may forward a packet to each other
  for ever. So they may if ranges overlap: with 1 and 4 both serving an address, an
  old rule of 2 may point right and a newer one of 3 left.
* `Controller`, `Erase`: the erase beyond the end when two clients end in one pass
  (section 2).
* `Switch`, `RecvSock`: the EINVAL of a RELAY that was cut throws away an ACK or an ADD
  that has arrived whole (`switch.cpp:324`). Nothing repeats either.
* `Addresses`, `ReadLine`: a line is parsed before the switch it names is compared
  (`trafficfile.cpp:54`), so a line that does not parse ends every switch that reads
  it, although the comment at `switch.cpp:257-259` says that a switch ignores lines
  specifying other switches.
* `Values`, `ValidSwitchID`: "null" is accepted as a switch's own id and gives it the
  number 0, although `README.md` names `sw1` to `sw7` and the comment of
  `validateSwitchIDNum` a number from MIN_SWITCHES to MAX_SWITCHES: the constructor
  for "null" does not call it.
* `Startup`, `RespondOPEN`: an EINVAL left by a lookup costs the next client its packet.
* `SwitchPass`, `OpenSendFIFO`: nothing closes the descriptors of RELAYs; at the limit
  `open` fails with EMFILE and the switch exits.
* `SwitchPass`, `Write`: a neighbour that ends between the `open` and the `write` of a
  RELAY ends the switch with SIGPIPE.
* `SwitchPass`: the EAGAIN of a full pipe ends the switch at its next `open` or poll.
* `Values`: a port beyond 65535 is cut to 16 bits before the test for it, and the
  switch runs with another port.

### Bounds

`MaxStarts` bounds how often an id is started, `MaxLines` how many lines of the
traffic file a process acts on; everything else is finite because of these.
Two starts give an old and a new connection of one switch, which is where
registration can go wrong. In chain one line per switch is enough: RELAYs from
both sides give the middle switch a second and a third packet to park, which is
needed for lost packets, duplicate rules and an erase next to another
parked packet. Three switches are the smallest chain with a middle and
the smallest number of clients for which the shifted sweep skips one socket and
visits another twice; two of the ring's switches may end, both in one pass, and start
again. There only sw3 has traffic: the run is about connections, and its other
purpose, a search that never returns, needs one QUERY.
`RelaysPerRead` is 1 in chain, restart and live, and 2 elsewhere; the 1024 bytes of
the program hold some 26 RELAYs. With 1 the second of two RELAYs may be cut, which
is all that the traffic of those runs can put into a pipe; with 2 two are read at
once, which relays needs.
Switch `i` serves the single address `i`; address 0 is nobody's and `MAX_IP + 1`
is the invalid source. Routing, where ranges matter, takes all ranges over three
addresses.

In SwitchPass a packet has two units and the buffer three, so that a read may end
between packets or inside one. A pipe holds one packet, so that it is often full,
and two descriptors are soon used up. `MaxRelays` is 2, so that they may meet in one
pipe or come one by one: a mutant that throws a packet away for any `errno` is found,
and with two that have met one is thrown away. `Relayed` has the left neighbour send
what is for this switch, and the right one what is for the left or for itself. `MaxIdle`,
how long the clock runs past a delay, is 1: late, but not later than late. The file
holds one delay; that delays in a row are kept is what the proof of `DelayRespected`
says, for every file. The millisecond that poll may wait is not in the model: a pass
may take any time.

In Addresses and Startup `INT_MAX` is 5 and 8, `PORT_MAX` 3 and `MAX_IP` 2; the
files and command lines take numbers on both sides of each limit. Three lines are
enough to park two packets and have a third one answered. Each process starts
once in Startup; `Leftover` stands for the runs before.

### Fairness

`WF` of the controller's loop and of each switch's loop: both poll without end
and look at every source in each pass, and neither ever blocks. A loop of a switch
counts as one action, so no source is promised to be read before another.
`SF` of `Disconnect`: the first `recv` on a reset socket reports the error and
the next one end of file, so the controller cannot see "nothing to read" there
for ever, although `VisitIdle` allows it each time. Users, traffic files and
`RecvRELAYFails` are not fair.

SwitchPass: `WF(Pass)`, the process is never blocked and runs, and `WF(Tick)`, time
passes. Neighbours and the controller are not fair. The other specifications are
used for safety only and state no fairness.

## 4. What is proved

Assumed are only the named `ASSUME`s on the constants: ids are a finite set of
positive numbers, neighbours are ids or null, ranges pass `parseIPRange`, the
bounds are numbers. They hold in every run.

* `FirstMatch` (RoutingProofs): `FlowEntryIndex` is 0 exactly when nothing
  matches, and otherwise an index of a rule that matches before which none does:
  the first match wins. It rests on `LeastNatural`, the
  least element of a set of numbers. The facts about the two recursive functions, `Search`
  and `SumTo`, rest on it as well: that such a function exists (`SearchUnfolds`,
  `SumUnfolds`), and what its values are, by looking at the least argument where it
  would be otherwise.
* `TypeCorrect` (A3sdnProofs): `Spec => []TypeOK`. `TypeOK` is inductive as it
  stands; there is a lemma per action. `MakeFlowEntryType` is the part about
  routing: whatever the search returns, the answer is a rule, because the result
  is only used when it is a known switch.
* `ParkedUnmatched` : `Spec => []UnsolvedUnmatched`. The
  invariant has to say as well that a switch which is not running has nothing
  parked, so that a start finds none. In a round of the walk, the packet erased was at the
  position the walk is at, so the part done is unchanged; a packet kept has
  been compared with every rule by `FirstMatch`.
* `RulesDistinct`: `Spec => []NoDuplicateRules`, since `SameRule` compares all that
  the invariant compares, and counting changes the counter only.
* `PortsExist`: `Spec => []ForwardPortExists`. The invariant follows the data
  around: an OPEN on its way tells the true neighbours, so the registry knows
  the true neighbours, so an ADD names a port that exists, so a table does.

`SwitchStep` and `ChannelStep` say once what a step can do to the table, the
parked packets, the position and the listing of a switch, and to a channel; these
three invariants and the next two are proved from them without going through the
actions again.

* `ListingCorrect`: `Spec => []ListingAddsUp`. `ListedInv` adds what makes it inductive:
  a process that starts finds an empty table and nothing parked, and a rule on its
  way has counted nothing (`FreshRules`). `Listed` in each case of `SwitchStep` says
  by how much a step raises ADMIT, RELAYOUT and the headers read. That the sums
  follow is shown for any sequence of numbers: a sum grows by one if one element does
  (`SumOneMore`), and by what is appended (`TotalAppend`).
* `NeverTurnsBack`: `InLine` and `RangesDisjoint` imply `Spec => []NoBounce`. Both are
  about the command lines: ids grow from left to right, gaps allowed, and neighbours
  do not contradict each other; no address is in a range of two switches, counting
  all ranges a switch is ever started with. Without the first, in a ring, packets do
  circle, and without the second as well (section 3). `FoundAhead`: a search that goes left
  comes back with a switch further left, as `lastSwitchID` keeps it from turning,
  whatever of the line the controller knows. `OnwardInv` follows the ranges: an OPEN
  tells a range of its switch, so the registry knows one, so a rule covers one of
  a switch on the side of its port, in an ADD and in a table, and keeps doing so
  when the registry has changed; so what it forwards is on that side. As there is only
  one switch that may serve the packet, every hop brings it nearer to the same one.
* `SearchEndsHolds`, `AnswerResolvesHolds`, `HopsAgreeHolds`, `AnswerIsNearestHolds`
  (RoutingChainProofs): the four properties of RoutingChain, for chains of every
  length. `SearchOutcome` says what a search k calls deep has found: the first
  server in its direction with all switches before it known, or that there is none, or
  (`Loops`) that k switches in a row follow; with `Fuel` calls there are not that many
  (`NoLongChain`). The search then agrees with its reference definition
  (`SideIsNearest`), and a hop with the next one (`NextHop`).

* `QueriesAnswered`, `NoSpareAnswer`, `Implements` (A3sdnSessionProofs):
  `QueryFromRegistered`, `AnswersBounded` and `ContractKept`, from one invariant
  `SessionInv` about each connection. It says that OPEN is only the first packet of
  a connection (`Ordered`), that nothing waits for a controller that is gone
  (`Silent`), that a connection whose OPEN has been handled belongs to a registered
  switch (`Enrolled`), and what a switch that does not run has counted (`Fresh`).
  `Balanced` is the heart of it: packets on the way and received are no more
  than packets sent (`Sums`); an ACK is the first answer, and none is read or on its
  way once an ACK or a rule has been read (`AckFirst`); and when the ACK has been
  read or thrown away, only rules are to come, no more than there were QUERYs
  (`Owed`). `NextEffect` says what a step does to a connection and the counters of its
  switch; one of its cases, `Refuses`, is the packet that an EINVAL costs. For the
  refinement, `ContractStep` maps each action to an action of Session or a stutter,
  under the mapping of A3sdnSession.
* `SocketsKept` (A3sdnRegistryProofs): `Spec => []ClientsConsistent`, from `DoorInv`.
  `InPlace` is the part about the erase by position: the slot that is visited holds
  the client at the position the pass has counted to, and beyond the end of the
  vector the last client or one that is gone. So an erase that stays within the
  vector takes the client that is visited, and so does one beyond the end, as
  libstdc++ does it (`ErasesVisited`): that is an assumption about undefined
  behaviour, and this theorem and those that use it rest on it. The part about live
  switches (`Connected`) needs that a socket is only closed once its switch has
  ended; the parts about `pollClients` need that no connection is accepted twice.
  `Due` is the point of the invariant: an OPEN that has not been read is on a
  connection still waiting, or on the one accepted in this pass, which is the
  last to be visited whatever the erase in the loop shifts. So while an OPEN is
  unread, newer connections of the same switch wait (`NewerWait`).
* `RegistryIsCurrent`: `Spec => []RegistryCurrent`. `RangeAt` relates the first rule of a
  live switch to the OPEN on its way and to its entry in the registry; by
  `NewerWait` an older OPEN is never read after the newer one.
* `OwnTraffic`: `Spec => []OwnTrafficStays`. Rules are only added behind the initial
  rule, and counting leaves its range (`FirstRuleKept`); what no rule matches is
  then not in the range (`NotOwned`), so it is neither parked nor asked about.
* `AdmitsOnlyOwn`: `Spec => []AdmittedIsOwn`, from both. Who asks is registered on this
  very connection (`SessionInv`), so the controller knows its range (`RangeAt`), and what is
  asked about is outside (`OwnAt`): no answer on its way to a live process admits
  anything, and of its rules only the first does (`AdmitsAt`). The DELIVER entry of
  `makeFlowEntry` is thus made at most for a question of a process that has ended.
* `PollErrno`, `StaleErrno` (SwitchPassProofs): `ErrnoInv` says in which stages
  `errno` may be set and by what: never in "traffic" and "write", only by a full pipe
  in "poll", "left" and "resolve", by an empty or cut left pipe in "right".
* `DiscardExplained`: `DiscardInv` says that while no RELAY has met another each
  pipe is empty or holds one RELAY, whole, so that no read is cut and nothing leaves
  EINVAL for `check_sock` to take as its own, however many RELAYs have been sent.
* `DelaysPass`: the invariant says that `endTime` is no earlier than the time of the
  last line plus its delay, and that lines are read when `delayPassed` holds.
* `PassTypes`, `DescriptorsByPackets`: `Spec => []TypeOK` and
  `Spec => []OpenedByPackets` of SwitchPass, from `PassInv`. The accounts are proved
  handler by handler: a route line, or a RELAY taken, pays for one
  descriptor or one parked packet (`ResolveType`), and a parked packet that is sent
  on gives its place for its descriptor (`RemoveAtLength`). That a read takes at least
  one message off a pipe that has any, even one that starts inside a packet
  (`AfterReadType`), is a fact about rounding (`KeptUnits`).
* `Delivered`, `NumbersSent`, `NegativeEnds` (AddressesProofs): `DeliveredAsWritten`,
  `OthersSendNumbers` and `EndsOfNegative`, from `AddressInv`. It says that each rule
  held or on the way ends below `INT_MAX`; that a RELAY on the way parses; that a text
  parked or asked about parses, or its switch has read a negative address; and that
  what is parked or on its way in a pipe has, if it parses, the numbers some switch
  read in the file. A rule only matches what parses (`MatchedFits`), and what
  parses comes back from its text unchanged (`BackAndForth`), so that forwarding
  keeps the numbers. `AddressTypes` is `Spec => []TypeOK`.
* `ErrnoExplained` (StartupProofs): a process with `errno` set has made a lookup that
  left it set; makeFIFO clears what mkfifo sets.
* `OpenPipes`: `Spec => []ReadersBeforeOpen`. `ToldInv` follows a switch through its
  stages: past main its command line is legal, the first `made` pipes exist, past
  "pipes" all of them do, past "open" it holds those from its neighbours. `Moves`
  says once what a step may do to a switch.
* `StartTypes`: `Spec => []TypeOK` of Startup, from `StartInv`, `ToldInv` and `PipesInv`,
  which says that pipes are made and opened for legal numbers only.

Every invariant of a run that passes is proved, and so are its action properties
and the refinement. Only model-checked are the liveness properties:
`EverySwitchAcked`, `SwitchesFollowController`, `DeadClientsLeave`, `ReadsWholeFile`. The
prover has no rules for fairness and ENABLED.

## 5. What is not modelled

* The controller is not started again: its switches have ended by then, and
  the new one knows nothing.
* Printing, SIGUSR1 and `list`; the build files and sample traffic files.
* The splitting of texts at blanks and colons, and the list of addresses that
  getaddrinfo returns; the number of arguments of `main`.
* Writes beyond the buffer of `getMessage` (`gate.cpp:120`), and what is in the
  buffer before the first read. A read that fills the buffer of `check_connection`
  leaves no NUL in it (`switch.cpp:288`): what stands behind the buffer is taken to
  belong to the packet that was cut, and so to change nothing of the first one.
* The backlog of `listen`, and the capacity of the sockets. A `recv` that a packet of a
  socket does not fit into is in SwitchPass only: in A3sdn a `recv` takes whole packets. Pipes that are full and
  descriptors that run out are in SwitchPass only, too.
* Other outcomes of the erase beyond the end of `clientSocketConnections` than that of
  libstdc++.
* A switch that is started as "null" is in Values and Startup only. The ids of Routing and
  of the modules that use it, Addresses among them, are positive numbers.
* The EINVAL of a lookup (Startup) in the packets that A3sdn handles: there a lookup
  leaves `errno` alone.
* A DROP rule made while the serving switch was not connected stays for ever. The
  models behave so, but no property speaks of it: nothing promises otherwise.
* The controller's error branch for packets no switch sends it, and the switch's
  counters for packets it never gets.

## 6. Plan

Done, in this order: Flow, Routing, Transport, Controller, Switch, A3sdn;
RoutingChain; Session with the refinement; Stream and SwitchPass; Values,
Addresses and Startup; the proofs of section 4.

Left:

1. SwitchPass as an implementation of the freely interleaved handlers of Switch,
   through an abstraction of packets to ports.
