----------------------------- MODULE Transport -----------------------------
(***************************************************************************)
(* The channels between the processes, as the kernel provides them and as  *)
(* the program uses them: one TCP connection from every switch process to  *)
(* the controller, and one named pipe per direction between neighbours.    *)
(* None of this is code of the repository; every operator is read off the  *)
(* calls the program makes (connect, accept, send, recv, open, read,       *)
(* write, and what exit does to open files).                               *)
(*                                                                         *)
(* What a reader gets is the point of this module.  The program reads a    *)
(* socket with one recv of up to BUFFER_SIZE bytes and keeps the text up   *)
(* to the first NUL (Gate::getMessage), and it reads a pipe with one read  *)
(* of up to BUFFER_SIZE bytes and parses one packet from its start         *)
(* (Switch::check_connection).  What else has been read is lost.  A read   *)
(* of a pipe may end inside a RELAY; the next one then starts inside it    *)
(* and finds no packet.                                                    *)
(***************************************************************************)
EXTENDS Routing

CONSTANTS Left, Right,   \* the neighbours given on the command line of a switch
          MaxStarts,     \* bound: how often one switch id is started
          RelaysPerRead  \* the RELAYs that fit into BUFFER_SIZE bytes

ASSUME NeighbourAssumption ==
  /\ Left \in [Switches -> Switches \cup {Null}]
  /\ Right \in [Switches -> Switches \cup {Null}]

ASSUME MaxStartsAssumption == MaxStarts \in Nat \ {0}

ASSUME RelaysPerReadAssumption == RelaysPerRead \in Nat \ {0}

(* One connection for each start of each switch.                           *)
Conn == Switches \X (1 .. MaxStarts)

(* The pipes fifo-i-j, named by writer and reader.                         *)
Links == Switches \X Switches

(***************************************************************************)
(* The packets sent over TCP.  Address and port of an OPEN are only        *)
(* printed, and a RELAY travels in a pipe as the packet header it carries. *)
(***************************************************************************)
OpenMsg(s, range) ==
  [type |-> "OPEN", id |-> s, left |-> Left[s], right |-> Right[s],
   low |-> range.low, high |-> range.high]
QueryMsg(s, p) == [type |-> "QUERY", id |-> s, pkt |-> p]
AckMsg == [type |-> "ACK"]
AddMsg(r) == [type |-> "ADD", rule |-> r]

ToController ==
  [type : {"OPEN"}, id : Switches, left : Switches \cup {Null},
   right : Switches \cup {Null}, low : Nat, high : Nat]
  \cup [type : {"QUERY"}, id : Switches, pkt : Packet]
ToSwitch == [type : {"ACK"}] \cup [type : {"ADD"}, rule : Rule]

VARIABLES
  alive,     \* alive[s]: the process of switch s runs its main loop
  starts,    \* starts[s]: how often s has been started
  ctrlUp,    \* the controller process runs
  pending,   \* connections the controller has not accepted yet, oldest first
  up,        \* up[c]: messages to the controller, sent and not yet read
  down,      \* down[c]: messages to the switch, sent and not yet read
  reset,     \* reset[c]: one end closed it while data was on the way to that end
  fifo,      \* fifo[e]: packets in a pipe, the first maybe read in part
  torn,      \* the pipes whose first packet has been read in part
  writers    \* the pipes their writer holds open (it never closes them)

transportVars ==
  <<alive, starts, ctrlUp, pending, up, down, reset, fifo, torn, writers>>

Current(s) == <<s, starts[s]>>

(* The switch end of c is open.                                            *)
PeerLive(c) == alive[c[1]] /\ starts[c[1]] = c[2]

(***************************************************************************)
(* What one recv or read of k messages leaves behind: the first is looked  *)
(* at, the other k - 1 are dropped with it.                                *)
(* AfterRecvKeepLast: a mutant, off by one, the last message is left.      *)
(***************************************************************************)
AfterRecvKeepLast(q, k) == SubSeq(q, k, Len(q))
AfterRecv(q, k) == SubSeq(q, k + 1, Len(q))

(***************************************************************************)
(* send() towards the controller, and towards a switch.  A message for a   *)
(* closed end is lost and brings back a reset.                             *)
(***************************************************************************)
SendToController(c, m) ==
  IF ctrlUp
  THEN up' = [up EXCEPT ![c] = Append(@, m)] /\ UNCHANGED reset
  ELSE reset' = [reset EXCEPT ![c] = TRUE] /\ UNCHANGED up

SendToSwitch(c, m) ==
  IF PeerLive(c)
  THEN down' = [down EXCEPT ![c] = Append(@, m)] /\ UNCHANGED reset
  ELSE reset' = [reset EXCEPT ![c] = TRUE] /\ UNCHANGED down

(* The pipe e has a process that opened it for reading.                    *)
HasReader(e) ==
  /\ e[2] \in Switches
  /\ alive[e[2]]
  /\ e[1] \in {Left[e[2]], Right[e[2]]}

(***************************************************************************)
(* One read of pipe e takes k packets, or all there are.  What it leaves   *)
(* may start inside a packet.                                              *)
(***************************************************************************)
AfterRead(e, k) == [fifo EXCEPT ![e] = AfterRecv(@, k)]

TornAfter(e, k) ==
  {torn \ {e}} \cup (IF Len(fifo[e]) > k THEN {torn \cup {e}} ELSE {})

(***************************************************************************)
(* sendRELAYPacket on pipe e, when the pipes hold f: open fails without a  *)
(* reader (ENXIO, and EBADF from the write that follows), the program      *)
(* clears errno and the packet is gone.  /dev/null, the send FIFO of the   *)
(* dummy connection of a missing neighbour, swallows it as well.           *)
(***************************************************************************)
WriteFifo(e, p, f) ==
  IF HasReader(e)
  THEN fifo' = [f EXCEPT ![e] = Append(@, p)] /\ writers' = writers \cup {e}
  ELSE fifo' = f /\ UNCHANGED writers

(***************************************************************************)
(* The process of s ends.  Its end of the connection closes with a reset   *)
(* if it leaves data unread.  A pipe keeps its contents as long as one end *)
(* is open.                                                                *)
(***************************************************************************)
CloseSwitch(s) ==
  LET c == Current(s)
      gone(e) == \/ e[2] = s /\ e \notin writers
                 \/ e[1] = s /\ ~HasReader(e)
  IN /\ alive' = [alive EXCEPT ![s] = FALSE]
     /\ down' = [down EXCEPT ![c] = <<>>]
     /\ reset' = [reset EXCEPT ![c] = ctrlUp /\ down[c] # <<>>]
     /\ fifo' = [e \in Links |-> IF gone(e) THEN <<>> ELSE fifo[e]]
     /\ torn' = {e \in torn : ~gone(e)}
     /\ writers' = {e \in writers : e[1] # s}
     /\ UNCHANGED <<starts, ctrlUp, pending, up>>

(***************************************************************************)
(* The controller process ends, with the data q unread: connections it had *)
(* not accepted are reset, and so are those it had not read to the end.    *)
(* What it had sent stays readable.                                        *)
(***************************************************************************)
CloseController(q) ==
  /\ ctrlUp' = FALSE
  /\ pending' = <<>>
  /\ up' = [c \in Conn |-> <<>>]
  /\ reset' = [c \in Conn |->
                 PeerLive(c) /\ (q[c] # <<>> \/ Contains(pending, c))]
  /\ UNCHANGED <<alive, starts, down, fifo, torn, writers>>

(* The controller closes its end of c after the switch has closed its own. *)
CloseConnection(c) ==
  /\ up' = [up EXCEPT ![c] = <<>>]
  /\ reset' = [reset EXCEPT ![c] = FALSE]

TransportInit ==
  /\ alive = [s \in Switches |-> FALSE]
  /\ starts = [s \in Switches |-> 0]
  /\ ctrlUp = TRUE
  /\ pending = <<>>
  /\ up = [c \in Conn |-> <<>>]
  /\ down = [c \in Conn |-> <<>>]
  /\ reset = [c \in Conn |-> FALSE]
  /\ fifo = [e \in Links |-> <<>>]
  /\ torn = {}
  /\ writers = {}

TransportTypeOK ==
  /\ alive \in [Switches -> BOOLEAN]
  /\ starts \in [Switches -> 0 .. MaxStarts]
  /\ \A s \in Switches : alive[s] => starts[s] > 0
  /\ ctrlUp \in BOOLEAN
  /\ pending \in Seq(Conn)
  /\ up \in [Conn -> Seq(ToController)]
  /\ down \in [Conn -> Seq(ToSwitch)]
  /\ reset \in [Conn -> BOOLEAN]
  /\ fifo \in [Links -> Seq(Packet)]
  /\ torn \in SUBSET Links
  /\ writers \in SUBSET Links
=============================================================================
