------------------------------- MODULE Switch -------------------------------
(***************************************************************************)
(* The switch processes: Switch::start and the handlers it calls.          *)
(*                                                                         *)
(* One pass of the main loop looks at the traffic file, the two pipes and  *)
(* the socket in turn; each is an action here, enabled when there is       *)
(* something to read.  A handler does at most one send or write, with one  *)
(* exception: resolveUnsolvedPackets, run by the handler of an ADD, may    *)
(* write one RELAY per parked packet, while the neighbours read them and   *)
(* write theirs.  It is one step per parked packet (ResolveStep), and      *)
(* iter[s] # 0 keeps every other handler of s waiting.                     *)
(***************************************************************************)
EXTENDS Transport

CONSTANTS Ranges,            \* Ranges[s]: the ranges s may be started with
          Traffic,           \* Traffic[s]: the packets its traffic file may name
          MaxLines,          \* bound: lines read by one process
          ExitingSwitches    \* the switches the user may end

ASSUME RangesAssumption == Ranges \in [Switches -> SUBSET IPRange]
ASSUME TrafficAssumption == Traffic \in [Switches -> SUBSET Packet]
ASSUME MaxLinesAssumption == MaxLines \in Nat

VARIABLES
  table,      \* flowTable
  unsolved,   \* unsolvedPackets
  iter,       \* position of the loop of resolveUnsolvedPackets; 0 outside it
  lines,      \* lines of the traffic file that named this switch, so far
  count,      \* the packet counters of the switch
  einval      \* the pipe read in this pass that left EINVAL in errno, or Null

switchVars == <<table, unsolved, iter, lines, count, einval>>

Counts == {"tOPEN", "tQUERY", "tRELAY", "rACK", "rADD", "rRELAY", "ADMIT"}

Zero == [n \in Counts |-> 0]

Bump(s, names) ==
  count' = [count EXCEPT
              ![s] = [n \in Counts |-> IF n \in names THEN @[n] + 1 ELSE @[n]]]

(* s is in its main loop and not inside resolveUnsolvedPackets.            *)
Polling(s) == alive[s] /\ iter[s] = 0

(* The process of s ends; a new one starts with nothing it knew.           *)
SwitchGone(s) ==
  /\ CloseSwitch(s)
  /\ table' = [table EXCEPT ![s] = <<>>]
  /\ unsolved' = [unsolved EXCEPT ![s] = <<>>]
  /\ iter' = [iter EXCEPT ![s] = 0]
  /\ lines' = [lines EXCEPT ![s] = 0]
  /\ count' = [count EXCEPT ![s] = Zero]
  /\ einval' = [einval EXCEPT ![s] = Null]

(***************************************************************************)
(* A process starts: the initial rule, the connection, the OPEN packet.    *)
(* Without a controller connect fails and the process ends, so nothing is  *)
(* to be modelled for that case.                                           *)
(***************************************************************************)
Start(s) ==
  /\ ~alive[s] /\ ctrlUp /\ starts[s] < MaxStarts
  /\ \E range \in Ranges[s] :
       LET c == <<s, starts[s] + 1>>
       IN /\ alive' = [alive EXCEPT ![s] = TRUE]
          /\ starts' = [starts EXCEPT ![s] = @ + 1]
          /\ pending' = Append(pending, c)
          /\ up' = [up EXCEPT ![c] = <<OpenMsg(s, range)>>]
          /\ table' = [table EXCEPT ![s] = <<InitRule(range)>>]
          /\ Bump(s, {"tOPEN"})
  /\ UNCHANGED <<ctrlUp, down, reset, fifo, torn, writers, unsolved, iter, lines,
                 einval>>

-----------------------------------------------------------------------------
(* The neighbour on a port; Null when the connection is the dummy one.     *)
Neighbour(s, port) == IF port = PORT_1 THEN Left[s] ELSE Right[s]

(***************************************************************************)
(* resolvePacket when rule i matches p, for a handler that has counted     *)
(* `seen' and left the pipes as f.                                         *)
(* CountedLost: a mutant, the changed copy of the entry is not stored.     *)
(***************************************************************************)
CountedLost(t, i) == t
Counted(t, i) == [t EXCEPT ![i].pktCount = @ + 1]

Apply(s, p, i, seen, f) ==
  LET rule == table[s][i]
  IN /\ table' = [table EXCEPT ![s] = Counted(@, i)]
     /\ \/ /\ IsLocal(rule)
           /\ Bump(s, seen \cup {"ADMIT"})
           /\ fifo' = f /\ UNCHANGED writers
        \/ /\ IsRelay(rule)
           /\ Bump(s, seen \cup {"tRELAY"})
           /\ WriteFifo(<<s, Neighbour(s, rule.actionVal)>>, p, f)
        \/ /\ rule.actionType = DROP
           /\ Bump(s, seen)
           /\ fifo' = f /\ UNCHANGED writers

(* sendQUERYPacket: ask, and park the packet.                              *)
Park(q, p) == Append(q, p)

SendQUERY(s, p, seen, f) ==
  /\ SendToController(Current(s), QueryMsg(s, p))
  /\ unsolved' = [unsolved EXCEPT ![s] = Park(@, p)]
  /\ Bump(s, seen \cup {"tQUERY"})
  /\ fifo' = f /\ UNCHANGED <<table, writers>>

(* SIGPIPE: the reset of an earlier packet to the controller has come back.*)
QueryKills(s) == ~ctrlUp /\ reset[Current(s)]

(* A packet from the traffic file or a pipe is resolved or asked about.    *)
ResolveOrAsk(s, p, seen, f) ==
  LET i == FlowEntryIndex(table[s], p)
  IN \/ i > 0 /\ Apply(s, p, i, seen, f) /\ UNCHANGED <<unsolved, up, reset>>
     \/ i = 0 /\ SendQUERY(s, p, seen, f)

(***************************************************************************)
(* check_trafficFile and parseTrafficFileLine for a line that names s, at  *)
(* the start of a pass, when errno is clear.  Other lines change nothing;  *)
(* a delay only postpones the next line, which a step not taken yet stands *)
(* for.                                                                    *)
(***************************************************************************)
ReadTraffic(s) ==
  /\ Polling(s) /\ lines[s] < MaxLines /\ einval[s] = Null
  /\ \E p \in Traffic[s] :
       \/ /\ ResolveOrAsk(s, p, {}, fifo)
          /\ lines' = [lines EXCEPT ![s] = @ + 1]
          /\ UNCHANGED <<alive, starts, ctrlUp, pending, down, torn, iter, einval>>
       \/ /\ FlowEntryIndex(table[s], p) = 0 /\ QueryKills(s)
          /\ SwitchGone(s)

-----------------------------------------------------------------------------
(***************************************************************************)
(* check_connection on the pipe from neighbour n: one read, the packet at  *)
(* its start is handled, what else it took is lost.  After a read from the *)
(* left that left EINVAL comes the pipe from the right, and then the       *)
(* socket; otherwise the model takes them in any order.                    *)
(***************************************************************************)
CanRead(s, n) ==
  /\ Polling(s) /\ n \in {Left[s], Right[s]} /\ fifo[<<n, s>>] # <<>>
  /\ einval[s] = Null \/ (einval[s] = Left[s] /\ n = Right[s])

(* The RELAY of p opens a pipe that has a reader, or /dev/null.            *)
Forwards(s, p) ==
  LET i == FlowEntryIndex(table[s], p) IN i > 0 /\ IsRelay(table[s][i])

OpenSucceeds(s, p) ==
  /\ Forwards(s, p)
  /\ LET n == Neighbour(s, table[s][FlowEntryIndex(table[s], p)].actionVal)
     IN n = Null \/ HasReader(<<s, n>>)

(* A packet read whole.  The open that fails clears errno.                 *)
RecvRELAY(s, n) ==
  /\ CanRead(s, n) /\ <<n, s>> \notin torn
  /\ LET p == Head(fifo[<<n, s>>])
     IN \/ /\ einval[s] = Null \/ ~OpenSucceeds(s, p)
           /\ ResolveOrAsk(s, p, {"rRELAY"}, AfterRead(<<n, s>>, RelaysPerRead))
           /\ torn' \in TornAfter(<<n, s>>, RelaysPerRead)
           /\ einval' = [einval EXCEPT ![s] = IF Forwards(s, p) THEN Null ELSE @]
           /\ UNCHANGED <<alive, starts, ctrlUp, pending, down, iter, lines>>
        \/ /\ FlowEntryIndex(table[s], p) = 0 /\ QueryKills(s)
           /\ SwitchGone(s)

(***************************************************************************)
(* An empty pipe that its writer holds open: read leaves EAGAIN.           *)
(***************************************************************************)
WouldBlock(s, n) ==
  n \in Switches /\ <<n, s>> \in writers /\ fifo[<<n, s>>] = <<>>

(***************************************************************************)
(* A read that starts inside a packet: it takes the rest of that one, and  *)
(* as much as a buffer less this rest has room for.  The text is no packet *)
(* and nothing is counted, but parseType leaves EINVAL, which EAGAIN of    *)
(* the pipe from the right may replace.                                    *)
(***************************************************************************)
RecvTorn(s, n) ==
  /\ CanRead(s, n) /\ <<n, s>> \in torn
  /\ \E k \in {RelaysPerRead, RelaysPerRead + 1} :
       fifo' = AfterRead(<<n, s>>, k) /\ torn' \in TornAfter(<<n, s>>, k)
  /\ \E left \in {n} \cup (IF n = Left[s] /\ WouldBlock(s, Right[s]) THEN {Null} ELSE {}) :
       einval' = [einval EXCEPT ![s] = left]
  /\ UNCHANGED <<alive, starts, ctrlUp, pending, up, down, reset, writers,
                 table, unsolved, iter, lines, count>>

(***************************************************************************)
(* openSendFIFO takes the errno of an earlier read for a failure of open   *)
(* and the process exits: when a RELAY from the right is to be written to  *)
(* a pipe with a reader (or to /dev/null), and the read of the left pipe   *)
(* just before left EINVAL, or EAGAIN because the pipe was empty then.     *)
(***************************************************************************)
LeftHasErrno(s) ==
  \/ einval[s] # Null
  \/ Left[s] \in Switches /\ <<Left[s], s>> \in writers \ torn

RecvRELAYFails(s, n) ==
  /\ CanRead(s, n) /\ <<n, s>> \notin torn /\ n = Right[s]
  /\ LeftHasErrno(s)
  /\ OpenSucceeds(s, Head(fifo[<<n, s>>]))
  /\ SwitchGone(s)

-----------------------------------------------------------------------------
(* Where resolveUnsolvedPackets starts on q, and where it goes on after    *)
(* position j when it leaves the packets q.  NoReset and SkipNext are      *)
(* mutants: the end of the loop missed, and the iterator advanced after an *)
(* erase.                                                                  *)
FirstOf(q) == IF q = <<>> THEN 0 ELSE 1

NoReset(j, q) == j
NextOf(j, q) == IF j <= Len(q) THEN j ELSE 0

SkipNext(j) == j + 1
AfterErase(j) == j

(* respondADDPacket up to the call of resolveUnsolvedPackets.              *)
RespondADD(s, m) ==
  /\ table' = [table EXCEPT ![s] = AddRule(@, m.rule)]
  /\ iter' = [iter EXCEPT ![s] = FirstOf(unsolved[s])]
  /\ Bump(s, {"rADD"})

RespondACK(s) == Bump(s, {"rACK"}) /\ UNCHANGED <<table, iter>>

(***************************************************************************)
(* check_sock with data: one recv, one packet.  With EINVAL in errno,      *)
(* whoever left it, the packet is not looked at.  At the end errno is 0.   *)
(***************************************************************************)
RecvSock(s) ==
  /\ Polling(s)
  /\ LET c == Current(s)
     IN \E k \in 1 .. Len(down[c]) :
          LET m == Head(down[c])
          IN /\ down' = [down EXCEPT ![c] = AfterRecv(@, k)]
             /\ \/ einval[s] = Null /\ m.type = "ADD" /\ RespondADD(s, m)
                \/ einval[s] = Null /\ m.type = "ACK" /\ RespondACK(s)
                \/ einval[s] # Null /\ UNCHANGED <<table, iter, count>>
  /\ einval' = [einval EXCEPT ![s] = Null]
  /\ UNCHANGED <<alive, starts, ctrlUp, pending, up, reset, fifo, torn, writers,
                 unsolved, lines>>

(* check_sock with nothing to read: all it does is to clear errno.         *)
SockIdle(s) ==
  /\ Polling(s) /\ down[Current(s)] = <<>> /\ ctrlUp /\ einval[s] # Null
  /\ einval' = [einval EXCEPT ![s] = Null]
  /\ UNCHANGED <<transportVars, table, unsolved, iter, lines, count>>

(* One round of the loop of resolveUnsolvedPackets.                        *)
ResolveStep(s) ==
  /\ alive[s] /\ iter[s] # 0
  /\ LET j == iter[s]
         p == unsolved[s][j]
         i == FlowEntryIndex(table[s], p)
     IN \/ /\ i > 0
           /\ Apply(s, p, i, {}, fifo)
           /\ unsolved' = [unsolved EXCEPT ![s] = RemoveAt(@, j)]
           /\ iter' = [iter EXCEPT ![s] = NextOf(AfterErase(j), unsolved'[s])]
        \/ /\ i = 0
           /\ iter' = [iter EXCEPT ![s] = NextOf(j + 1, unsolved[s])]
           /\ UNCHANGED <<table, unsolved, count, fifo, writers>>
  /\ UNCHANGED <<alive, starts, ctrlUp, pending, up, down, reset, torn, lines, einval>>

(* recv returned 0: the controller is gone and all it sent has been read.  *)
(* SockFailed: a mutant that only notices an error of recv.                *)
SockFailed(s) == ~ctrlUp /\ down[Current(s)] = <<>> /\ reset[Current(s)]
SockClosed(s) == ~ctrlUp /\ down[Current(s)] = <<>>

ControllerLost(s) ==
  /\ Polling(s) /\ SockClosed(s)
  /\ SwitchGone(s)

(* The exit command, or a signal that ends the process at any point.       *)
Exit(s) ==
  /\ alive[s] /\ s \in ExitingSwitches
  /\ SwitchGone(s)

SwitchInit ==
  /\ table = [s \in Switches |-> <<>>]
  /\ unsolved = [s \in Switches |-> <<>>]
  /\ iter = [s \in Switches |-> 0]
  /\ lines = [s \in Switches |-> 0]
  /\ count = [s \in Switches |-> Zero]
  /\ einval = [s \in Switches |-> Null]

SwitchTypeOK ==
  /\ table \in [Switches -> Seq(Rule)]
  /\ unsolved \in [Switches -> Seq(Packet)]
  /\ iter \in [Switches -> Nat]
  /\ \A s \in Switches : iter[s] <= Len(unsolved[s])
  /\ lines \in [Switches -> 0 .. MaxLines]
  /\ count \in [Switches -> [Counts -> Nat]]
  /\ einval \in [Switches -> Switches \cup {Null}]
=============================================================================
