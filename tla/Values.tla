------------------------------- MODULE Values -------------------------------
(***************************************************************************)
(* The values of the program as text and as C++ integers: std::stoi, the   *)
(* casts that follow it, SwitchID, IPRange and Port.                       *)
(*                                                                         *)
(* A text is known here by the number that stoi reads in it.  stoi throws  *)
(* out_of_range for a number that is no int and invalid_argument for a     *)
(* text with no number at its start; nothing catches either, so the two    *)
(* are one, and a text without a number is written as a number that does   *)
(* not fit.                                                                *)
(***************************************************************************)
EXTENDS Flow, Integers

CONSTANTS INT_MAX,    \* 2^31 - 1; small in a run of TLC
          PORT_MAX    \* 65535; small in a run of TLC

ASSUME WidthAssumption ==
  /\ INT_MAX \in Nat /\ PORT_MAX \in Nat
  /\ MAX_IP <= INT_MAX /\ PORT_MAX <= INT_MAX

MIN_SWITCHES == 1
MAX_SWITCHES == 7

(* stoi returns.                                                           *)
Fits(n) == -INT_MAX - 1 <= n /\ n <= INT_MAX

(***************************************************************************)
(* static_cast<uint> of an int: modulo 2 * (INT_MAX + 1).                  *)
(* ToShort, Unchanged: mutants, a cast to 16 bits, and no cast.            *)
(***************************************************************************)
ToShort(n) == n % (PORT_MAX + 1)
Unchanged(n) == n
ToUint(n) == IF n < 0 THEN n + 2 * (INT_MAX + 1) ELSE n

(***************************************************************************)
(* A switch id as text: "null", a text in which regex_search finds `sw'    *)
(* and a number (whatever stands around them), or a text in which it does  *)
(* not.  NameNull is the id that means "no switch".                        *)
(***************************************************************************)
SwitchText == [form : {"null", "sw", "other"}, num : Int]

NULL_SWITCH_ID_NUM == 0

(* The constructor of SwitchID returns; otherwise the process ends.        *)
ValidSwitchID(t) ==
  \/ t.form = "null"
  \/ /\ t.form = "sw" /\ Fits(t.num)
     /\ MIN_SWITCHES <= t.num /\ t.num <= MAX_SWITCHES

SwitchIDNum(t) == IF t.form = "null" THEN NULL_SWITCH_ID_NUM ELSE t.num

(***************************************************************************)
(* parseIPRange: the text before the first dash and the text after it.     *)
(* Without a dash, low is the whole text and high all of it but the last   *)
(* character.                                                              *)
(***************************************************************************)
RangeText == [low : Int, high : Int]

ValidIPRange(t) ==
  /\ Fits(t.low) /\ Fits(t.high)
  /\ ToUint(t.high) <= MAX_IP /\ MIN_IP <= ToUint(t.low)
  /\ ToUint(t.low) <= ToUint(t.high)

RangeOf(t) == [low |-> ToUint(t.low), high |-> ToUint(t.high)]

(* static_cast<u_int16_t>(stoi(...)), before validatePortNum sees it.      *)
PortNum(n) == n % (PORT_MAX + 1)
ValidPort(n) == Fits(n) /\ PortNum(n) <= PORT_MAX
=============================================================================
