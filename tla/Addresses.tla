------------------------------ MODULE Addresses ------------------------------
(***************************************************************************)
(* The addresses of packets on their way through the processes.  They are  *)
(* text in the traffic file, in a QUERY, in a RELAY and in a parked        *)
(* packet, and every handler reads the text again with stoi.  Here the     *)
(* conversions of Values are applied at each of these places; the          *)
(* connections are sets (a packet that is never taken stands for one that  *)
(* is lost or read together with another), every switch is registered,     *)
(* and no counter is kept.  What follows the end of a process is in A3sdn. *)
(***************************************************************************)
EXTENDS Routing, Values

CONSTANTS
  Registry,      \* the entry of each switch in `switches'
  Files          \* the traffic files, each a sequence of lines

(* A line with three words names a switch, and either two addresses or     *)
(* `delay' and a time; any other line, empty ones and comments too, is     *)
(* ignored.  For a delay, `second' is the time.                            *)
Line == [words : Nat, name : SwitchText, delay : BOOLEAN, first : Int, second : Int]

ASSUME RegistryAssumption ==
  /\ Registry \in [Switches -> SwitchInfo]
  /\ \A s \in Switches : Registry[s].low <= Registry[s].high /\ Registry[s].high <= MAX_IP

ASSUME FilesAssumption == Files \subseteq Seq(Line)

Cont == 0
Processes == Switches \cup {Cont}

(* What a packet carries of a header, and what a handler makes of it.      *)
Text == [srcIP : Nat, dstIP : Nat]
TextOf(p) == [srcIP |-> p.src, dstIP |-> p.dst]
Parses(t) == Fits(t.srcIP) /\ Fits(t.dstIP)
HeaderOf(t) == [src |-> ToUint(t.srcIP), dst |-> ToUint(t.dstIP)]

VARIABLES
  table,     \* flowTable
  unsolved,  \* unsolvedPackets, as text
  iter,      \* position in resolveUnsolvedPackets; 0 outside
  asked,     \* asked[s]: QUERYs of s on the way
  added,     \* added[s]: ADDs for s on the way
  fifo,      \* fifo[s]: RELAYs on the way to s
  admitted,  \* headers delivered at s
  file,      \* the traffic file; all switches are given the same one
  read,      \* read[s]: how many lines s has read
  ended      \* "no", or what ended the process

vars == <<table, unsolved, iter, asked, added, fifo, admitted, file, read, ended>>

Runs(p) == ended[p] = "no"

EndOf(p, why) == ended' = [ended EXCEPT ![p] = why]

-----------------------------------------------------------------------------
(* getTrafficFileLineType, the parsing of a line, and the switch it names. *)
Ignored(l) == l.words # 3
LineParses(l) ==
  /\ ValidSwitchID(l.name)
  /\ l.delay \/ Fits(l.first)
  /\ Fits(l.second)
Names(l, s) == SwitchIDNum(l.name) = s
LineHeader(l) == [src |-> ToUint(l.first), dst |-> ToUint(l.second)]

Matched(t, p) == FlowEntryIndex(t, p) # 0
RuleFor(t, p) == t[FlowEntryIndex(t, p)]

(* The neighbour at a port.                                                *)
Neighbour(s, port) == IF port = PORT_1 THEN Registry[s].left ELSE Registry[s].right

(* resolvePacket of switch s for header p when a rule matches it; the      *)
(* pipes hold f.                                                           *)
Apply(s, p, f) ==
  LET r == RuleFor(table[s], p)
  IN /\ admitted' = [admitted EXCEPT ![s] = IF IsLocal(r) THEN @ \cup {p} ELSE @]
     /\ fifo' = [n \in Switches |->
          IF IsRelay(r) /\ n = Neighbour(s, r.actionVal) THEN f[n] \cup {TextOf(p)} ELSE f[n]]

(* A header from the traffic file or a pipe: resolved, or asked about.     *)
Handle(s, p, f) ==
  /\ \/ Matched(table[s], p) /\ Apply(s, p, f) /\ UNCHANGED <<unsolved, asked>>
     \/ /\ ~Matched(table[s], p)
        /\ unsolved' = [unsolved EXCEPT ![s] = Append(@, TextOf(p))]
        /\ asked' = [asked EXCEPT ![s] = @ \cup {TextOf(p)}]
        /\ fifo' = f /\ UNCHANGED admitted
  /\ UNCHANGED <<table, added>>

-----------------------------------------------------------------------------
(* parseTrafficFileLine.  The whole line is parsed before its switch is    *)
(* compared with this one, so a line for another switch may end this one.  *)
ReadLine(s) ==
  /\ Runs(s) /\ iter[s] = 0 /\ read[s] < Len(file)
  /\ read' = [read EXCEPT ![s] = @ + 1] /\ UNCHANGED <<file, iter>>
  /\ LET l == file[read[s] + 1]
     IN \/ /\ Ignored(l)
           /\ UNCHANGED <<table, unsolved, asked, added, fifo, admitted, ended>>
        \/ /\ ~Ignored(l) /\ ~LineParses(l) /\ EndOf(s, "line")
           /\ UNCHANGED <<table, unsolved, asked, added, fifo, admitted>>
        \/ /\ ~Ignored(l) /\ LineParses(l) /\ (l.delay \/ ~Names(l, s))
           /\ UNCHANGED <<table, unsolved, asked, added, fifo, admitted, ended>>
        \/ /\ ~Ignored(l) /\ LineParses(l) /\ ~l.delay /\ Names(l, s)
           /\ Handle(s, LineHeader(l), fifo)
           /\ UNCHANGED ended

(* respondRELAYPacket.                                                     *)
RecvRELAY(s) ==
  /\ Runs(s) /\ iter[s] = 0
  /\ \E t \in fifo[s] :
       LET f == [fifo EXCEPT ![s] = @ \ {t}]
       IN IF Parses(t) THEN Handle(s, HeaderOf(t), f) /\ UNCHANGED ended
          ELSE /\ EndOf(s, "packet") /\ fifo' = f
               /\ UNCHANGED <<table, unsolved, asked, added, admitted>>
  /\ UNCHANGED <<iter, file, read>>

(* respondQUERYPacket and sendADDPacket.                                   *)
RecvQUERY(s) ==
  /\ Runs(Cont)
  /\ \E t \in asked[s] :
       /\ asked' = [asked EXCEPT ![s] = @ \ {t}]
       /\ \/ ~Parses(t) /\ EndOf(Cont, "packet") /\ UNCHANGED added
          \/ /\ Parses(t)
             /\ added' = [added EXCEPT ![s] = @ \cup {MakeFlowEntry(Registry, s, HeaderOf(t))}]
             /\ UNCHANGED ended
  /\ UNCHANGED <<table, unsolved, iter, fifo, admitted, file, read>>

RuleParses(r) == Fits(r.dstLow) /\ Fits(r.dstHigh)

(* respondADDPacket, up to resolveUnsolvedPackets.                         *)
RecvADD(s) ==
  /\ Runs(s) /\ iter[s] = 0
  /\ \E r \in added[s] :
       /\ added' = [added EXCEPT ![s] = @ \ {r}]
       /\ IF RuleParses(r)
          THEN /\ table' = [table EXCEPT ![s] = AddRule(@, r)]
               /\ iter' = [iter EXCEPT ![s] = 1] /\ UNCHANGED ended
          ELSE EndOf(s, "packet") /\ UNCHANGED <<table, iter>>
  /\ UNCHANGED <<unsolved, asked, fifo, admitted, file, read>>

(* resolveUnsolvedPackets, one packet of it or its end.  The text of each  *)
(* packet is parsed again; one that stoi refuses ends the process.         *)
ResolveUnsolved(s) ==
  /\ Runs(s) /\ iter[s] > 0
  /\ \/ /\ iter[s] > Len(unsolved[s])
        /\ iter' = [iter EXCEPT ![s] = 0] /\ UNCHANGED <<unsolved, fifo, admitted, ended>>
     \/ /\ iter[s] <= Len(unsolved[s])
        /\ LET t == unsolved[s][iter[s]]
           IN \/ /\ ~Parses(t) /\ EndOf(s, "packet")
                 /\ UNCHANGED <<unsolved, iter, fifo, admitted>>
              \/ /\ Parses(t) /\ Matched(table[s], HeaderOf(t))
                 /\ Apply(s, HeaderOf(t), fifo)
                 /\ unsolved' = [unsolved EXCEPT ![s] = RemoveAt(@, iter[s])]
                 /\ UNCHANGED <<iter, ended>>
              \/ /\ Parses(t) /\ ~Matched(table[s], HeaderOf(t))
                 /\ iter' = [iter EXCEPT ![s] = @ + 1]
                 /\ UNCHANGED <<unsolved, fifo, admitted, ended>>
  /\ UNCHANGED <<table, asked, added, file, read>>

Init ==
  /\ table = [s \in Switches |-> <<InitRule([low |-> Registry[s].low, high |-> Registry[s].high])>>]
  /\ unsolved = [s \in Switches |-> <<>>] /\ iter = [s \in Switches |-> 0]
  /\ asked = [s \in Switches |-> {}]
  /\ added = [s \in Switches |-> {}]
  /\ fifo = [s \in Switches |-> {}]
  /\ admitted = [s \in Switches |-> {}]
  /\ file \in Files
  /\ read = [s \in Switches |-> 0]
  /\ ended = [p \in Processes |-> "no"]

Next == \E s \in Switches : ReadLine(s) \/ RecvRELAY(s) \/ RecvQUERY(s) \/ RecvADD(s) \/ ResolveUnsolved(s)

Spec == Init /\ [][Next]_vars

-----------------------------------------------------------------------------
Causes == {"no", "line", "packet"}

TypeOK ==
  /\ table \in [Switches -> Seq(Rule)]
  /\ unsolved \in [Switches -> Seq(Text)]
  /\ iter \in [Switches -> Nat] /\ \A s \in Switches : iter[s] <= Len(unsolved[s]) + 1
  /\ asked \in [Switches -> SUBSET Text]
  /\ added \in [Switches -> SUBSET Rule]
  /\ fifo \in [Switches -> SUBSET Text]
  /\ admitted \in [Switches -> SUBSET Packet]
  /\ file \in Files
  /\ read \in [Switches -> 0 .. Len(file)]
  /\ ended \in [Processes -> Causes]

(* Switch s has read a line of its own with the addresses of header p.     *)
Wrote(s, p) ==
  \E i \in 1 .. read[s] :
    LET l == file[i]
    IN ~Ignored(l) /\ ~l.delay /\ Names(l, s) /\ l.first = p.src /\ l.second = p.dst

(***************************************************************************)
(* A packet is delivered with the very numbers some switch read in its     *)
(* traffic file, and only from a valid source: the four conversions on the *)
(* way and the casts between them change no address that a rule matches.   *)
(***************************************************************************)
DeliveredAsWritten ==
  \A s \in Switches : \A p \in admitted[s] :
    /\ p.src \in MIN_IP .. MAX_IP
    /\ \E w \in Switches : Wrote(w, p)

(***************************************************************************)
(* A switch reads numbers that stoi accepts in every RELAY and in every    *)
(* ADD, so no switch ends because of what another one or the controller    *)
(* sent it: addresses that only fit an unsigned int match no rule and are  *)
(* forwarded by none (resolvePacket, makeFlowEntry).                       *)
(***************************************************************************)
OthersSendNumbers ==
  \A s \in Switches :
    /\ \A t \in fifo[s] : Parses(t)
    /\ \A r \in added[s] : RuleParses(r)

(***************************************************************************)
(* A process that ends inside a packet handler does so because of a        *)
(* negative address in a traffic file: a switch in its own, the controller *)
(* in that of some switch.  An address that is too large never gets there. *)
(***************************************************************************)
ReadNegative(s) ==
  \E i \in 1 .. read[s] :
    LET l == file[i]
    IN /\ ~Ignored(l) /\ ~l.delay /\ LineParses(l) /\ Names(l, s)
       /\ l.first < 0 \/ l.second < 0

EndsOfNegative ==
  /\ \A s \in Switches : ended[s] = "packet" => ReadNegative(s)
  /\ ended[Cont] = "packet" => \E s \in Switches : ReadNegative(s)
=============================================================================
