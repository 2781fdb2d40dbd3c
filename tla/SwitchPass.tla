----------------------------- MODULE SwitchPass -----------------------------
(***************************************************************************)
(* One switch at the level of its system calls: a pass of the main loop in *)
(* program order, with errno as the state it is, open and write of a RELAY *)
(* as two steps, the descriptors that are never closed, pipes that can be  *)
(* full, reads that end inside a packet, and the delays of the traffic     *)
(* file.  Module Switch takes a handler as one step and leaves all of this *)
(* out, except for the death in openSendFIFO; here the routing is left out *)
(* instead: a packet is known by the port it is for, and a rule by the     *)
(* port it serves.                                                         *)
(***************************************************************************)
EXTENDS Integers, SequencesExt, Stream

CONSTANTS
  Neighbours,      \* the ports with a neighbour
  File,            \* the lines of the traffic file
  Relayed,         \* Relayed[n]: the packets neighbour n may forward to the switch
  MaxIdle,         \* bound: how far the clock runs past a delay, in ms
  MaxRelays,       \* bound: RELAYs the neighbours send
  PipeCapacity,    \* RELAYs that a pipe holds
  MaxDescriptors,  \* RELAYs the process can open a pipe for
  NeighboursEnd    \* whether a neighbour may end (and start again)

PORT_1 == 1
PORT_2 == 2
PORT_3 == 3

EAGAIN == 11
EINVAL == 22

Ports == {PORT_1, PORT_2}
Dest == Neighbours \cup {PORT_3}

(* A message of the controller: ACK, or the port an ADD has a rule for.    *)
ACK == 0

(* A line names this switch with a packet (dst) or a delay (ms), or it is  *)
(* one the switch ignores.                                                 *)
Lines == [kind : {"route"}, dst : Dest] \cup [kind : {"delay"}, ms : Nat]
         \cup [kind : {"other"}]

ASSUME NeighboursAssumption == Neighbours \subseteq Ports
ASSUME FileAssumption == File \in Seq(Lines)
ASSUME RelayedAssumption == Relayed \in [Neighbours -> SUBSET Dest]
ASSUME BoundsAssumption ==
  /\ MaxIdle \in Nat /\ MaxRelays \in Nat /\ PipeCapacity \in Nat \ {0}
  /\ MaxDescriptors \in Nat /\ NeighboursEnd \in BOOLEAN

VARIABLES
  stage,     \* where the process is; "dead" when it has ended
  errno,     \* 0, EAGAIN or EINVAL
  cause,     \* why the process ended
  now,       \* the clock
  endTime,   \* of the current delay
  next,      \* the next line of the file
  readAt,    \* when the lines so far were read (history)
  table,     \* the ports there is a rule for
  unsolved,  \* unsolvedPackets
  iter,      \* position in resolveUnsolvedPackets
  relay,     \* the port of the RELAY being sent, and the stage after it
  opened,    \* descriptors opened for RELAYs
  in,        \* in[n]: the pipe from neighbour n
  held,      \* the neighbours that hold this pipe open
  out,       \* out[n]: the RELAYs in the pipe to neighbour n
  up,        \* the neighbours that run
  sent,      \* RELAYs the neighbours have sent
  met,       \* a RELAY was sent behind another, unread one (history)
  sock,      \* the connection from the controller
  asked,     \* what the controller has still to send
  discarded, \* messages at the start of what recv read, whole, and not looked
             \* at (history)
  overran    \* a RELAY of this pass found its pipe full (history)

clockVars == <<endTime, next, readAt>>
rulesVars == <<table, unsolved, iter, asked>>
pipeVars == <<in, held, out, up, sent, met>>
sockVars == <<sock, discarded>>
vars == <<stage, errno, cause, now, clockVars, rulesVars, relay, opened, pipeVars, sockVars,
          overran>>

-----------------------------------------------------------------------------
(* exit(errno), or a signal that ends the process.                         *)
Die(why) ==
  /\ stage' = "dead" /\ cause' = why
  /\ UNCHANGED <<errno, relay, opened>>

GoOn(to) ==
  /\ stage' = to
  /\ UNCHANGED <<errno, cause, relay, opened>>

(***************************************************************************)
(* sendRELAYPacket up to the end of openSendFIFO.  Without a descriptor    *)
(* open fails with EMFILE; without a reader it fails with ENXIO, the write *)
(* to -1 with EBADF, and sendRELAYPacket clears errno.  If open succeeds,  *)
(* an errno left by an earlier call is taken for its failure.              *)
(***************************************************************************)
OpenSendFIFO(n, after) ==
  \/ opened = MaxDescriptors /\ Die("EMFILE")
  \/ /\ opened < MaxDescriptors /\ n \notin up
     /\ stage' = after /\ errno' = 0
     /\ UNCHANGED <<cause, relay, opened>>
  \/ /\ opened < MaxDescriptors /\ n \in up /\ errno # 0
     /\ Die("open")
  \/ /\ opened < MaxDescriptors /\ n \in up /\ errno = 0
     /\ stage' = "write" /\ relay' = [port |-> n, after |-> after]
     /\ opened' = opened + 1
     /\ UNCHANGED <<errno, cause>>

(* resolvePacket when a rule matches.                                      *)
Forward(p, after) ==
  \/ p = PORT_3 /\ GoOn(after)
  \/ p # PORT_3 /\ OpenSendFIFO(p, after)

(* resolvePacket, and sendQUERYPacket when no rule matches.                *)
Resolve(p, after) ==
  \/ p \in table /\ Forward(p, after) /\ UNCHANGED <<unsolved, asked>>
  \/ /\ p \notin table /\ GoOn(after)
     /\ unsolved' = Append(unsolved, p)
     /\ asked' = asked \cup {p}

(* The write of sendRELAYPacket.  A pipe that is full leaves EAGAIN; one   *)
(* whose reader has ended meanwhile raises SIGPIPE.                        *)
Write ==
  /\ stage = "write"
  /\ LET n == relay.port
     IN \/ /\ n \notin up
           /\ Die("SIGPIPE") /\ UNCHANGED out
        \/ /\ n \in up
           /\ stage' = relay.after
           /\ \/ out[n] < PipeCapacity /\ out' = [out EXCEPT ![n] = @ + 1] /\ UNCHANGED errno
              \/ out[n] = PipeCapacity /\ errno' = EAGAIN /\ UNCHANGED out
           /\ UNCHANGED <<cause, relay, opened>>
  /\ overran' = (overran \/ (relay.port \in up /\ out[relay.port] = PipeCapacity))
  /\ UNCHANGED <<now, clockVars, rulesVars, in, held, up, sent, met, sockVars>>

-----------------------------------------------------------------------------
(* The pass begins with poll, and the test of errno.                       *)
Poll ==
  /\ stage = "poll"
  /\ \/ errno # 0 /\ Die("poll")
     \/ errno = 0 /\ GoOn("traffic")
  /\ overran' = FALSE
  /\ UNCHANGED <<now, clockVars, rulesVars, pipeVars, sockVars>>

(* DelayOver: a mutant, the comparison turned round.                       *)
DelayOver == now <= endTime
DelayPassed == now >= endTime

(* setDelay.  FromLastEnd: a mutant that starts from the end of the last   *)
(* delay whether that is over or not.                                      *)
FromLastEnd(ms) == endTime + ms
NewEndTime(ms) == IF DelayPassed THEN now + ms ELSE endTime + ms

(* check_trafficFile: at most one line, and none while a delay runs.       *)
CheckTraffic ==
  /\ stage = "traffic"
  /\ \/ /\ ~DelayPassed \/ next > Len(File)
        /\ GoOn("left")
        /\ UNCHANGED <<clockVars, rulesVars>>
     \/ /\ DelayPassed /\ next <= Len(File)
        /\ next' = next + 1 /\ readAt' = Append(readAt, now)
        /\ LET line == File[next]
           IN \/ /\ line.kind = "other"
                 /\ GoOn("left") /\ UNCHANGED <<endTime, unsolved, asked>>
              \/ /\ line.kind = "delay"
                 /\ endTime' = NewEndTime(line.ms)
                 /\ GoOn("left") /\ UNCHANGED <<unsolved, asked>>
              \/ /\ line.kind = "route"
                 /\ Resolve(line.dst, "left") /\ UNCHANGED endTime
        /\ UNCHANGED <<table, iter>>
  /\ UNCHANGED <<now, pipeVars, sockVars, overran>>

StageOf(n) == IF n = PORT_1 THEN "left" ELSE "right"
AfterPort(n) == IF n = PORT_1 THEN "right" ELSE "sock"

(***************************************************************************)
(* check_connection of port n.  An empty pipe with a writer leaves EAGAIN, *)
(* the rest of a packet that was cut leaves EINVAL (parseType); a pipe     *)
(* with no writer reads as its end.  A port without a neighbour is not     *)
(* looked at.                                                              *)
(***************************************************************************)
CheckConnection(n) ==
  /\ stage = StageOf(n)
  /\ \/ /\ n \notin Neighbours \/ (IsEmpty(in[n]) /\ n \notin held)
        /\ GoOn(AfterPort(n)) /\ UNCHANGED <<in, unsolved, asked>>
     \/ /\ n \in Neighbours /\ IsEmpty(in[n]) /\ n \in held
        /\ stage' = AfterPort(n) /\ errno' = EAGAIN
        /\ UNCHANGED <<cause, relay, opened, in, unsolved, asked>>
     \/ /\ n \in Neighbours /\ ~IsEmpty(in[n])
        /\ in' = [in EXCEPT ![n] = AfterRead(@)]
        /\ \/ StartsWhole(in[n]) /\ Resolve(Head(in[n].msgs), AfterPort(n))
           \/ /\ ~StartsWhole(in[n])
              /\ stage' = AfterPort(n) /\ errno' = EINVAL
              /\ UNCHANGED <<cause, relay, opened, unsolved, asked>>
  /\ UNCHANGED <<now, clockVars, table, iter, held, out, up, sent, met, sockVars, overran>>

(***************************************************************************)
(* check_sock.  getMessage clears errno unless it is something else than   *)
(* EAGAIN; after parsing the text, an EINVAL means "not a packet",         *)
(* whoever left it.  Nothing to read gives an empty text, which is no      *)
(* packet either.                                                          *)
(* GotAgain, GotInvalid: mutants, one of the two kinds is not cleared.     *)
(* SomeErrno: a mutant, any errno is taken for "not a packet".             *)
(***************************************************************************)
GotAgain == IF errno = EAGAIN THEN errno ELSE 0
GotInvalid == IF errno = EINVAL THEN errno ELSE 0
ErrnoAfterSock == 0

SomeErrno == errno # 0
NotPacket == errno = EINVAL

CheckSock ==
  /\ stage = "sock"
  /\ errno' = ErrnoAfterSock
  /\ LET packet == ~IsEmpty(sock) /\ StartsWhole(sock)
     IN \/ /\ ~packet \/ NotPacket
           /\ stage' = "poll"
           /\ discarded' = discarded + IF packet THEN 1 ELSE 0
           /\ UNCHANGED <<table, iter>>
        \/ /\ packet /\ ~NotPacket /\ Head(sock.msgs) = ACK
           /\ stage' = "poll"
           /\ UNCHANGED <<discarded, table, iter>>
        \/ /\ packet /\ ~NotPacket /\ Head(sock.msgs) # ACK
           /\ stage' = "resolve"
           /\ table' = table \cup {Head(sock.msgs)} /\ iter' = 1
           /\ UNCHANGED discarded
  /\ sock' = AfterRead(sock)
  /\ UNCHANGED <<cause, relay, opened, now, clockVars, unsolved, asked, pipeVars,
                 overran>>

(***************************************************************************)
(* resolveUnsolvedPackets, one packet of it or its end.                    *)
(* SkipNext: a mutant that advances after an erase.  NotErased: a mutant   *)
(* that keeps the packet.                                                  *)
(***************************************************************************)
SkipNext(j) == j + 1
AfterErase(j) == j

NotErased(q, j) == q
Erased(q, j) == RemoveAt(q, j)

ResolveUnsolved ==
  /\ stage = "resolve"
  /\ \/ /\ iter > Len(unsolved)
        /\ GoOn("poll") /\ UNCHANGED <<unsolved, iter>>
     \/ /\ iter <= Len(unsolved) /\ unsolved[iter] \in table
        /\ Forward(unsolved[iter], "resolve")
        /\ unsolved' = Erased(unsolved, iter) /\ iter' = AfterErase(iter)
     \/ /\ iter <= Len(unsolved) /\ unsolved[iter] \notin table
        /\ GoOn("resolve")
        /\ iter' = iter + 1 /\ UNCHANGED unsolved
  /\ UNCHANGED <<now, clockVars, table, asked, pipeVars, sockVars, overran>>

Pass ==
  \/ Poll \/ CheckTraffic \/ CheckSock \/ ResolveUnsolved \/ Write
  \/ \E n \in Ports : CheckConnection(n)

-----------------------------------------------------------------------------
(* The environment of the process.                                         *)
process == <<stage, errno, cause, clockVars, relay, opened, table, unsolved, iter, discarded,
             overran>>

Tick ==
  /\ now < endTime + MaxIdle /\ now' = now + 1
  /\ UNCHANGED <<process, asked, pipeVars, sock>>

(* A neighbour forwards a packet, which may be one it will get back.       *)
NeighbourSends(n) ==
  /\ n \in up /\ sent < MaxRelays /\ stage # "dead"
  /\ \E p \in Relayed[n] : in' = [in EXCEPT ![n] = Put(@, p)]
  /\ held' = held \cup {n} /\ sent' = sent + 1
  /\ met' = (met \/ ~IsEmpty(in[n]))
  /\ UNCHANGED <<process, now, asked, out, up, sock>>

NeighbourReads(n) ==
  /\ n \in up /\ out[n] > 0
  /\ out' = [out EXCEPT ![n] = 0]
  /\ UNCHANGED <<process, now, asked, in, held, up, sent, met, sock>>

NeighbourEnds(n) ==
  /\ NeighboursEnd /\ n \in up
  /\ up' = up \ {n} /\ held' = held \ {n}
  /\ UNCHANGED <<process, now, asked, in, out, sent, met, sock>>

NeighbourStarts(n) ==
  /\ n \in Neighbours \ up /\ up' = up \cup {n}
  /\ UNCHANGED <<process, now, asked, in, held, out, sent, met, sock>>

(* The controller sends the ACK first, and one rule for what it was asked. *)
ControllerSends ==
  /\ \E m \in asked :
       /\ ACK \in asked => m = ACK
       /\ sock' = Put(sock, m) /\ asked' = asked \ {m}
  /\ UNCHANGED <<process, now, pipeVars>>

Environment ==
  \/ Tick \/ ControllerSends
  \/ \E n \in Neighbours : \/ NeighbourSends(n) \/ NeighbourReads(n)
                           \/ NeighbourEnds(n) \/ NeighbourStarts(n)

Init ==
  /\ stage = "poll" /\ errno = 0 /\ cause = "none"
  /\ now = 0 /\ endTime = 0 /\ next = 1 /\ readAt = <<>>
  /\ table = {PORT_3} /\ unsolved = <<>> /\ iter = 1 /\ asked = {ACK}
  /\ relay = [port |-> PORT_1, after |-> "poll"] /\ opened = 0
  /\ in = [n \in Ports |-> Empty] /\ held = {} /\ out = [n \in Ports |-> 0]
  /\ up = Neighbours /\ sent = 0 /\ met = FALSE
  /\ sock = Empty /\ discarded = 0 /\ overran = FALSE

Next == Pass \/ Environment

(* The process runs whenever it can, and time passes.                      *)
Spec == Init /\ [][Next]_vars /\ WF_vars(Pass) /\ WF_vars(Tick)

-----------------------------------------------------------------------------
Stages == {"poll", "traffic", "left", "right", "sock", "resolve", "write", "dead"}

TypeOK ==
  /\ stage \in Stages
  /\ errno \in {0, EAGAIN, EINVAL}
  /\ cause \in {"none", "poll", "open", "EMFILE", "SIGPIPE"}
  /\ now \in Nat /\ endTime \in Nat
  /\ next \in 1 .. Len(File) + 1 /\ readAt \in Seq(Nat)
  /\ table \in SUBSET Dest /\ unsolved \in Seq(Dest)
  /\ iter \in 1 .. Len(unsolved) + 1
  /\ relay \in [port : Ports, after : Stages] /\ opened \in 0 .. MaxDescriptors
  /\ in \in [Ports -> Streams(Dest)] /\ held \in SUBSET Neighbours
  /\ out \in [Ports -> 0 .. PipeCapacity] /\ up \in SUBSET Neighbours
  /\ sent \in 0 .. MaxRelays /\ met \in BOOLEAN
  /\ sock \in Streams(Dest \cup {ACK}) /\ asked \in SUBSET (Dest \cup {ACK})
  /\ discarded \in Nat /\ overran \in BOOLEAN

-----------------------------------------------------------------------------
(***************************************************************************)
(* The test of errno after poll ends the switch in one case only: a RELAY  *)
(* that resolveUnsolvedPackets sent found its pipe full.  Whatever else a  *)
(* handler leaves, getMessage or check_sock clears before the pass ends.   *)
(***************************************************************************)
PollErrnoExplained == stage = "poll" /\ errno # 0 => overran

(***************************************************************************)
(* The line after a delay of this switch is not read before the delay is   *)
(* over, whatever happened since (setDelay, delayPassed).                  *)
(***************************************************************************)
DelayRespected ==
  \A i \in 1 .. Len(readAt) - 1 :
    File[i].kind = "delay" => readAt[i + 1] >= readAt[i] + File[i].ms

(***************************************************************************)
(* openSendFIFO takes an errno of another call for a failure of open in    *)
(* one place: a RELAY from the right, read just after the pipe of a left   *)
(* neighbour, is forwarded.  Anywhere else the pass has met a full pipe; a *)
(* switch at the left end of the chain does not die of an empty pipe.      *)
(***************************************************************************)
StaleErrnoFromLeft ==
  [][cause' = "open" /\ cause # "open" =>
       overran \/ (stage = "right" /\ PORT_1 \in Neighbours)]_vars

(***************************************************************************)
(* A packet that recv has read whole and first is only refused if a RELAY  *)
(* has been sent into a pipe that still held another, so that a read could *)
(* cut it: an empty pipe, a full one or RELAYs that come one by one never  *)
(* cost an ACK or an ADD (parseType leaves EINVAL, which check_sock takes  *)
(* for its own).  What recv reads behind the first packet is lost in any   *)
(* case, and is not counted here.                                          *)
(***************************************************************************)
DiscardNeedsTwoRelays == discarded > 0 => met

(***************************************************************************)
(* No packet costs more than one descriptor, although it may be parked and *)
(* resolved much later: what has been opened and what is still parked is   *)
(* accounted for by lines of the traffic file and RELAYs taken from the    *)
(* pipes.  So the limit of the process is a limit on the packets it        *)
(* forwards (openSendFIFO, resolveUnsolvedPackets).                        *)
(***************************************************************************)
PacketsTaken ==
  Cardinality({i \in 1 .. next - 1 : File[i].kind = "route"})
    + sent - Len(in[PORT_1].msgs) - Len(in[PORT_2].msgs)

OpenedByPackets == opened + Len(unsolved) <= PacketsTaken

(* The traffic file is read to its end: no delay lasts for ever, and no    *)
(* handler keeps the loop from the next line.                              *)
ReadsWholeFile == <>(next > Len(File) \/ stage = "dead")
=============================================================================
