------------------------------ MODULE Session ------------------------------
(***************************************************************************)
(* What the controller and the switches promise each other, without the    *)
(* connections, the queues, the loss of messages and the routing: a switch *)
(* opens a session, is told that it is a member once it is registered,     *)
(* asks, and learns at most one rule per question once it is registered.   *)
(* It may not be told, and any question may stay without an answer; either *)
(* side may end at any time.                                               *)
(*                                                                         *)
(* A3sdnSession shows that A3sdn implements this.                          *)
(***************************************************************************)
EXTENDS Naturals

CONSTANT Ids

VARIABLES
  serving,     \* the controller runs
  opened,      \* the ids that have ever opened a session
  registered,  \* the ids the controller answers
  phase,       \* of a switch: "down", "opening" or "member"
  asked,       \* the questions of the running session
  learned,     \* how many of them have been answered
  rules        \* the rules a switch follows

sessionVars == <<serving, opened, registered, phase, asked, learned, rules>>

Init ==
  /\ serving = TRUE
  /\ opened = {}
  /\ registered = {}
  /\ phase = [s \in Ids |-> "down"]
  /\ asked = [s \in Ids |-> 0]
  /\ learned = [s \in Ids |-> 0]
  /\ rules = [s \in Ids |-> 0]

(* A session begins with the rule for the switch's own range.              *)
Open(s) ==
  /\ serving /\ phase[s] = "down"
  /\ phase' = [phase EXCEPT ![s] = "opening"]
  /\ opened' = opened \cup {s}
  /\ rules' = [rules EXCEPT ![s] = 1]
  /\ UNCHANGED <<serving, registered, asked, learned>>

(* The controller takes note of s, maybe of a session that is over.        *)
Register(s) ==
  /\ serving /\ s \in opened
  /\ registered' = registered \cup {s}
  /\ UNCHANGED <<serving, opened, phase, asked, learned, rules>>

(* s is only told what the controller says to registered ids, unless that  *)
(* has ended meanwhile.                                                    *)
Entitled(s) == s \in registered \/ ~serving

(* The acknowledgement comes before every rule or not at all.              *)
Acknowledge(s) ==
  /\ phase[s] = "opening" /\ learned[s] = 0 /\ Entitled(s)
  /\ phase' = [phase EXCEPT ![s] = "member"]
  /\ UNCHANGED <<serving, opened, registered, asked, learned, rules>>

(* s may ask before it is a member.                                        *)
Ask(s) ==
  /\ phase[s] # "down"
  /\ asked' = [asked EXCEPT ![s] = @ + 1]
  /\ UNCHANGED <<serving, opened, registered, phase, learned, rules>>

(* s receives the answer to a question that had none; the rule may be one  *)
(* it has.                                                                 *)
Learn(s) ==
  /\ phase[s] # "down" /\ learned[s] < asked[s] /\ Entitled(s)
  /\ learned' = [learned EXCEPT ![s] = @ + 1]
  /\ \E n \in {0, 1} : rules' = [rules EXCEPT ![s] = @ + n]
  /\ UNCHANGED <<serving, opened, registered, phase, asked>>

Close(s) ==
  /\ phase[s] # "down"
  /\ phase' = [phase EXCEPT ![s] = "down"]
  /\ asked' = [asked EXCEPT ![s] = 0]
  /\ learned' = [learned EXCEPT ![s] = 0]
  /\ rules' = [rules EXCEPT ![s] = 0]
  /\ UNCHANGED <<serving, opened, registered>>

Stop ==
  /\ serving
  /\ serving' = FALSE
  /\ registered' = {}
  /\ UNCHANGED <<opened, phase, asked, learned, rules>>

Next ==
  \/ Stop
  \/ \E s \in Ids : \/ Open(s) \/ Register(s) \/ Acknowledge(s)
                    \/ Ask(s) \/ Learn(s) \/ Close(s)

Spec == Init /\ [][Next]_sessionVars
=============================================================================
