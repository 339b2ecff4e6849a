------------------------------ MODULE MCRobot ------------------------------
(***************************************************************************)
(* The arbiter under any messages, in both of its modes, and the chain     *)
(* through which the robot is really driven.  part says which of the two a *)
(* behaviour shows.                                                        *)
(*                                                                         *)
(* Limits and thresholds are those of the code; the timers fire in each    *)
(* unit of time and the time-outs are two units, so that a node that has   *)
(* gone silent is told from one that has not; joy_timeout and the pause of *)
(* the shutdown script are the same second in the code.  The controller of *)
(* the arbiter: neutral, forward (the axis is reversed) with a drift to    *)
(* the side and turning, each with the deadman button, forward without it, *)
(* and the emergency stop.  In the chain: at rest (with some drift), the   *)
(* stick pushed, a button pressed.  The safety topic also carries a number *)
(* that is no state.                                                       *)
(***************************************************************************)
EXTENDS DriveChain

CONSTANT Components     \* those that are looked at

Pad(buttons, lin, ang) == [buttons |-> buttons, lin |-> lin, ang |-> ang]

ArbiterJoy ==
    { Pad({"LB"}, 8, 0), Pad({"LB"}, -100, 20), Pad({"LB", "X"}, -100, 0),
      Pad({}, -100, 0), Pad({"LB", "Back"}, -100, 0) }
ArbiterManual == { zero, [lin |-> 1000, ang |-> 5000], [lin |-> 400, ang |-> 0] }

MCPads       == { Pad({}, 10, 0), Pad({}, -100, 0), Pad({"Y"}, 0, 0) }
MCJoy        == ArbiterJoy \cup MCPads
MCManual     == ArbiterManual \cup { teleopTwist(p) : p \in MCPads }
MCSafetyData == State \cup {7}
MinusOne     == -1

VARIABLE part       \* the part that runs

(* The controller and the teleoperation node are not there. *)
NoChain ==
    /\ pad = Pad({}, 0, 0) /\ linked = FALSE /\ rest_since = 0 /\ lost_at = 0
    /\ held = NoJoy /\ teleop_up = FALSE /\ teleop_due = 0
    /\ script = "none" /\ script_at = 0

MCInit ==
    /\ part \in Components
    /\ IF part = "chain" THEN DriveInit ELSE Init /\ NoChain

(* The arbiter by itself meets its own inputs and ends one unit earlier;   *)
(* the chain is not told to go slowly.                                     *)
MCNext ==
    /\ UNCHANGED part
    /\ \/ /\ part = "arbiter" /\ Next
          /\ joy' \in ArbiterJoy \cup {NoJoy} /\ manual_twist' \in ArbiterManual
          /\ now' < MaxTime
          /\ UNCHANGED chainVars
       \/ part = "chain" /\ DriveNext /\ safety' # Slow

MCSpec == MCInit /\ [][MCNext]_<<part, vars, chainVars>>
=============================================================================
