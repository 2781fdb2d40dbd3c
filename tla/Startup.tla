------------------------------- MODULE Startup -------------------------------
(***************************************************************************)
(* The processes before their main loops: main, the constructors, and the  *)
(* calls of Switch::start and Controller::start up to `for (;;)'.  They     *)
(* run at the same time, in one directory whose pipes may be left from an  *)
(* earlier run, and they test errno after calls that need not have set it. *)
(* Module Switch takes all of it as one step (Start) and takes from it     *)
(* that a switch known to the controller has its pipes open for reading.   *)
(* An id may be "null", the switch's own included: nothing refuses it.     *)
(***************************************************************************)
EXTENDS Values, FiniteSets

CONSTANTS
  Switches,       \* the switch processes
  SwitchArgs,     \* SwitchArgs[s]: the command lines s may be given
  ContArgs,       \* the command lines the controller may be given
  LookupErrno,    \* what getaddrinfo may leave in errno when it succeeds
  Leftover        \* pipes that may exist before

(* The host and the traffic file are known by what comes of them.          *)
Hosts == {"v4", "v6", "unknown"}

SwitchLine == [id : SwitchText, left : SwitchText, right : SwitchText, range : RangeText,
               host : Hosts, port : Int, file : BOOLEAN]
ContLine == [nSwitches : Int, port : Int]

Cont == 0
Processes == Switches \cup {Cont}
Ids == 0 .. MAX_SWITCHES
Pipes == Ids \X Ids      \* fifo-i-j, by writer and reader

EEXIST == 17
EINVAL == 22

ASSUME SwitchesAssumption == Switches \subseteq Nat \ {0} /\ IsFiniteSet(Switches)
ASSUME LinesAssumption ==
  /\ SwitchArgs \in [Switches -> SUBSET SwitchLine]
  /\ ContArgs \subseteq ContLine
ASSUME ErrnoAssumption == LookupErrno \subseteq Nat \ {EEXIST} /\ 0 \in LookupErrno
ASSUME LeftoverAssumption == Leftover \subseteq Pipes

VARIABLES
  args,     \* the command lines
  at,       \* where each process is
  cause,    \* why it ended
  errno,
  made,     \* made[s]: how many pipes s has made
  reading,  \* reading[s]: the pipes s holds open for reading
  pipes,    \* the pipes that exist
  told,     \* the switches whose OPEN is sent
  heard,    \* those whose OPEN the controller has read
  stale     \* a lookup of the process left errno set (history)

vars == <<args, at, cause, errno, made, reading, pipes, told, heard, stale>>

At(p, stage) == at[p] = stage
Go(p, stage) == at' = [at EXCEPT ![p] = stage] /\ UNCHANGED cause
EndOf(p, why) ==
  at' = [at EXCEPT ![p] = "ended"] /\ cause' = [cause EXCEPT ![p] = why]

-----------------------------------------------------------------------------
(* The values main makes of a legal command line.                          *)
Id(s) == SwitchIDNum(args[s].id)
LeftId(s) == SwitchIDNum(args[s].left)
RightId(s) == SwitchIDNum(args[s].right)
NeighbourIds(s) == {LeftId(s), RightId(s)} \ {NULL_SWITCH_ID_NUM}

(* Every conversion of main in switch mode returns, the lookup included.   *)
LegalSwitch(a) ==
  /\ ValidSwitchID(a.id) /\ ValidSwitchID(a.left) /\ ValidSwitchID(a.right)
  /\ ValidIPRange(a.range)
  /\ a.host # "unknown"
  /\ ValidPort(a.port)

LegalController(a) ==
  /\ ValidPort(a.port)
  /\ Fits(a.nSwitches)
  /\ MIN_SWITCHES <= ToUint(a.nSwitches) /\ ToUint(a.nSwitches) <= MAX_SWITCHES

(* Address(domain): a lookup that succeeds may leave errno set.            *)
Lookup(p) ==
  \E e \in LookupErrno :
    /\ errno' = [errno EXCEPT ![p] = IF e = 0 THEN @ ELSE e]
    /\ stale' = [stale EXCEPT ![p] = @ \/ e # 0]

MainSwitch(s) ==
  /\ At(s, "main")
  /\ \/ /\ LegalSwitch(args[s]) /\ Lookup(s) /\ Go(s, "pipes")
     \/ /\ ~LegalSwitch(args[s]) /\ EndOf(s, "arguments") /\ UNCHANGED <<errno, stale>>
  /\ UNCHANGED <<args, made, reading, pipes, told, heard>>

(***************************************************************************)
(* The two pipes of a Connection: to the neighbour, and from it.  The left *)
(* Connection is made first, and a missing neighbour has none.             *)
(***************************************************************************)
FIFONames(i, n) == <<<<i, n>>, <<n, i>>>>

ToMake(s) ==
  (IF LeftId(s) = NULL_SWITCH_ID_NUM THEN <<>> ELSE FIFONames(Id(s), LeftId(s)))
  \o (IF RightId(s) = NULL_SWITCH_ID_NUM THEN <<>> ELSE FIFONames(Id(s), RightId(s)))

(* errno of makeFIFO after its test.  StaysSet: a mutant, not cleared.     *)
StaysSet(e) == e
Tested(e) == IF e = EEXIST THEN 0 ELSE e

(* makeFIFO, once.                                                         *)
MakeFIFO(s) ==
  /\ At(s, "pipes") /\ made[s] < Len(ToMake(s))
  /\ LET pipe == ToMake(s)[made[s] + 1]
         e == Tested(IF pipe \in pipes THEN EEXIST ELSE errno[s])
     IN /\ pipes' = pipes \cup {pipe}
        /\ errno' = [errno EXCEPT ![s] = e]
        /\ \/ e # 0 /\ EndOf(s, "makeFIFO") /\ UNCHANGED made
           \/ e = 0 /\ made' = [made EXCEPT ![s] = @ + 1] /\ UNCHANGED <<at, cause>>
  /\ UNCHANGED <<args, reading, told, heard, stale>>

(* openReceiveFIFO for the neighbours there are, left and then right.      *)
(* TellFirst: a mutant, the connection is made before.                     *)
TellFirst == "connect"
AfterMaking == "open"

MadeAll(s) ==
  /\ At(s, "pipes") /\ made[s] = Len(ToMake(s))
  /\ Go(s, AfterMaking)
  /\ UNCHANGED <<args, errno, made, reading, pipes, told, heard, stale>>

OpenReceiveFIFO(s) ==
  /\ At(s, "open")
  /\ IF errno[s] # 0 /\ NeighbourIds(s) # {}
     THEN EndOf(s, "openReceiveFIFO") /\ UNCHANGED reading
     ELSE /\ reading' = [reading EXCEPT ![s] = {<<n, Id(s)>> : n \in NeighbourIds(s)}]
          /\ Go(s, "signal")
  /\ UNCHANGED <<args, errno, made, pipes, told, heard, stale>>

(* getSignalFD.                                                            *)
GetSignalFD(p) ==
  /\ At(p, "signal")
  /\ \/ errno[p] # 0 /\ EndOf(p, "getSignalFD")
     \/ errno[p] = 0 /\ Go(p, IF p = Cont THEN "bind" ELSE "file")
  /\ UNCHANGED <<args, errno, made, reading, pipes, told, heard, stale>>

OpenTrafficFile(s) ==
  /\ At(s, "file")
  /\ \/ args[s].file /\ Go(s, "connect")
     \/ ~args[s].file /\ EndOf(s, "traffic file")
  /\ UNCHANGED <<args, errno, made, reading, pipes, told, heard, stale>>

(* inet_pton knows IPv4 only; connect needs a controller that listens on   *)
(* the port.                                                               *)
Connect(s) ==
  /\ At(s, "connect")
  /\ \/ args[s].host = "v6" /\ EndOf(s, "address")
     \/ /\ args[s].host = "v4"
        /\ \/ /\ At(Cont, "loop") /\ PortNum(args[Cont].port) = PortNum(args[s].port)
              /\ Go(s, "tell")
           \/ /\ ~At(Cont, "loop") \/ PortNum(args[Cont].port) # PortNum(args[s].port)
              /\ EndOf(s, "connection")
  /\ UNCHANGED <<args, errno, made, reading, pipes, told, heard, stale>>

SendOPEN(s) ==
  /\ At(s, "tell") /\ Go(s, "loop")
  /\ told' = told \cup {s}
  /\ UNCHANGED <<args, errno, made, reading, pipes, heard, stale>>

-----------------------------------------------------------------------------
MainController ==
  /\ At(Cont, "main")
  /\ \/ LegalController(args[Cont]) /\ Go(Cont, "signal")
     \/ ~LegalController(args[Cont]) /\ EndOf(Cont, "arguments")
  /\ UNCHANGED <<args, errno, made, reading, pipes, told, heard, stale>>

(* bind and listen: somebody else may have the port.                       *)
Bind ==
  /\ At(Cont, "bind")
  /\ Go(Cont, "loop") \/ EndOf(Cont, "bind")
  /\ UNCHANGED <<args, errno, made, reading, pipes, told, heard, stale>>

(***************************************************************************)
(* The controller reads the OPEN of s, and respondOPENPacket looks up the  *)
(* name in it, which may fail.  If it succeeds and leaves errno set, that  *)
(* meets the next client of the pass: EINVAL is taken for a packet that    *)
(* does not parse, and the packet is dropped (check_sock); a client that   *)
(* has sent nothing clears it (getMessage).                                *)
(***************************************************************************)
RespondOPEN(s) ==
  /\ At(Cont, "loop") /\ s \in told \ heard
  /\ heard' = heard \cup {s}
  /\ \/ /\ errno[Cont] = EINVAL
        /\ errno' = [errno EXCEPT ![Cont] = 0] /\ UNCHANGED <<at, cause, stale>>
     \/ errno[Cont] # EINVAL /\ Lookup(Cont) /\ UNCHANGED <<at, cause>>
     \/ errno[Cont] # EINVAL /\ EndOf(Cont, "lookup") /\ UNCHANGED <<errno, stale>>
  /\ UNCHANGED <<args, made, reading, pipes, told>>

(* The clients: told, or connected and about to tell.                      *)
Connected == told \cup {s \in Switches : At(s, "tell")}

(* The visit of another client than the one whose OPEN left errno set.     *)
VisitIdle ==
  /\ At(Cont, "loop") /\ errno[Cont] # 0
  /\ Cardinality(Connected \ (told \ heard)) > 1
  /\ errno' = [errno EXCEPT ![Cont] = 0]
  /\ UNCHANGED <<args, at, cause, made, reading, pipes, told, heard, stale>>

(* Nothing has cleared errno in the pass.                                  *)
PollFails ==
  /\ At(Cont, "loop") /\ errno[Cont] # 0
  /\ EndOf(Cont, "poll")
  /\ UNCHANGED <<args, errno, made, reading, pipes, told, heard, stale>>

StartSwitch(s) ==
  \/ MainSwitch(s) \/ MakeFIFO(s) \/ MadeAll(s) \/ OpenReceiveFIFO(s)
  \/ OpenTrafficFile(s) \/ Connect(s) \/ SendOPEN(s)

Init ==
  /\ args \in {a \in [Processes -> (UNION {SwitchArgs[s] : s \in Switches}) \cup ContArgs] :
                 a[Cont] \in ContArgs /\ \A s \in Switches : a[s] \in SwitchArgs[s]}
  /\ at = [p \in Processes |-> "main"]
  /\ cause = [p \in Processes |-> "none"]
  /\ errno = [p \in Processes |-> 0]
  /\ made = [s \in Switches |-> 0]
  /\ reading = [s \in Switches |-> {}]
  /\ pipes \in SUBSET Leftover
  /\ told = {} /\ heard = {}
  /\ stale = [p \in Processes |-> FALSE]

Next ==
  \/ \E s \in Switches : StartSwitch(s) \/ RespondOPEN(s)
  \/ \E p \in Processes : GetSignalFD(p)
  \/ MainController \/ Bind \/ VisitIdle \/ PollFails

Spec == Init /\ [][Next]_vars

-----------------------------------------------------------------------------
Stages == {"main", "pipes", "open", "signal", "file", "connect", "tell", "bind", "loop",
           "ended"}

ErrnoTests == {"makeFIFO", "openReceiveFIFO", "getSignalFD", "poll"}

Causes == ErrnoTests \cup
  {"none", "arguments", "traffic file", "address", "connection", "bind", "lookup"}

TypeOK ==
  /\ at \in [Processes -> Stages]
  /\ cause \in [Processes -> Causes]
  /\ errno \in [Processes -> LookupErrno]
  /\ made \in [Switches -> 0 .. 4]
  /\ reading \in [Switches -> SUBSET Pipes]
  /\ pipes \in SUBSET Pipes
  /\ told \in SUBSET Switches /\ heard \in SUBSET told
  /\ stale \in [Processes -> BOOLEAN]

(***************************************************************************)
(* When its OPEN is sent, a switch holds every pipe of its neighbours open *)
(* for reading, and both pipes of each connection exist: the controller    *)
(* makes no rule towards a switch that cannot be written to yet.           *)
(***************************************************************************)
ReadersBeforeOpen ==
  \A s \in told : \A n \in NeighbourIds(s) :
    /\ <<n, Id(s)>> \in reading[s]
    /\ {<<n, Id(s)>>, <<Id(s), n>>} \subseteq pipes

(***************************************************************************)
(* A test of errno ends a starting process, or the controller, only if a   *)
(* host lookup has left errno set: never because another switch, or an     *)
(* earlier run, made the same pipe first (makeFIFO and the tests that      *)
(* follow it).                                                             *)
(***************************************************************************)
ErrnoEndsExplained ==
  \A p \in Processes :
    cause[p] \in ErrnoTests => stale[p]
=============================================================================
