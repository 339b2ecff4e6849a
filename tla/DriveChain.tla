----------------------------- MODULE DriveChain -----------------------------
(***************************************************************************)
(* How the robot is really driven (turtlebot/scripts/start_robot.sh): the  *)
(* controller is read by joy_node, which sends a message only when         *)
(* something changes (autorepeat_rate 0.0); button_teleop.py keeps the     *)
(* last message and turns it into a velocity every period; the arbiter     *)
(* takes that velocity in no_joy_mode.  stop_robot.sh takes it all down.   *)
(*                                                                         *)
(* A message arrives in the unit of time in which it was sent, before or   *)
(* after whatever else happens in that unit.  The operator moves the       *)
(* controller, the controller may be lost for good (battery, range), and   *)
(* the shutdown script may be started at any time.                         *)
(***************************************************************************)
EXTENDS CmdVelArbiter

CONSTANTS
    Pads,               \* ways to hold the controller
    LIN, ANG,           \* velocities of the teleoperation node, in 1/100
    DEADZONE,           \* in 1/100
    teleop_period,
    script_sleep,       \* "sleep 1" of stop_robot.sh
    command_time        \* the least time a ros2 command takes

ASSUME DriveAssumption ==
    /\ Pads \subseteq JoyMessages
    /\ {LIN, ANG, DEADZONE, script_sleep, command_time} \subseteq Nat
    /\ teleop_period \in Nat \ {0}
    /\ joy_timeout + timer_period < script_sleep + 2 * command_time

VARIABLES
    pad,                \* how the operator holds the controller
    linked,             \* the controller is connected
    held,               \* buttons and axes of the teleoperation node
    teleop_up, teleop_due,
    script,             \* how far stop_robot.sh has come
    script_at,          \* when it finished its last command
    (* history *)
    rest_since,         \* when the controller last came to rest
    lost_at             \* when the connection was lost

teleopVars == <<held, teleop_up, teleop_due>>
scriptVars == <<script, script_at>>
padVars    == <<pad, linked, rest_since, lost_at>>
chainVars  == <<padVars, teleopVars, scriptVars>>

(* A button that moves the robot, or a stick beyond the dead zone. *)
stickUsed(p) == abs(p.lin) > DEADZONE \/ abs(p.ang) > DEADZONE
atRest(p)    == ~stickUsed(p) /\ p.buttons \cap {"Y", "A", "X", "B"} = {}

ChainInit ==
    /\ pad \in {p \in Pads : atRest(p)}
    /\ linked = TRUE
    /\ held = NoJoy
    /\ teleop_up = TRUE
    /\ teleop_due = StartTime + teleop_period
    /\ script = "none" /\ script_at = 0
    /\ rest_since = StartTime
    /\ lost_at = 0

DriveInit == Init /\ no_joy_mode /\ ChainInit

nodesUp == script # "nodes_down"

-----------------------------------------------------------------------------
(* button_teleop: the stick wins over the buttons. *)
teleopTwist(j) ==
    LET choose(plus, minus, speed) ==
            IF btn(j, plus) THEN speed ELSE IF btn(j, minus) THEN -speed ELSE 0
    IN  IF j = NoJoy THEN zero
        ELSE IF stickUsed(j) THEN [lin |-> -(LIN * j.lin), ang |-> ANG * j.ang]
        ELSE [lin |-> choose("Y", "A", LIN * 100), ang |-> choose("X", "B", ANG * 100)]

ASSUME TeleopAssumption == \A p \in Pads : teleopTwist(p) \in ManualTwists

(* Slip: the node is silent while nothing is pushed. *)
sent_Slip_OnlyMotion(t) == t # zero
(* The timer publishes whatever the velocity is. *)
sent(t) == TRUE

TeleopTimer ==
    /\ nodesUp /\ teleop_up
    /\ now >= teleop_due
    /\ teleop_due' = teleop_due + teleop_period
    /\ LET t == teleopTwist(held)
       IN  IF sent(t) THEN onManual(t) ELSE UNCHANGED vars
    /\ UNCHANGED <<padVars, held, teleop_up, scriptVars>>

(* The operator changes the grip: joy_node sends one message to both       *)
(* subscribers.                                                            *)
Grip(p) ==
    /\ nodesUp /\ linked
    /\ p # pad
    /\ pad' = p
    /\ held' = IF teleop_up THEN p ELSE held
    /\ onJoy(p)
    /\ rest_since' = IF atRest(p) /\ ~atRest(pad) THEN now ELSE rest_since
    /\ UNCHANGED <<linked, lost_at, teleop_up, teleop_due, scriptVars>>

(* A lost controller sends nothing any more, not even that it is lost. *)
LosePad ==
    /\ linked
    /\ linked' = FALSE
    /\ lost_at' = now
    /\ UNCHANGED <<vars, pad, rest_since, teleopVars, scriptVars>>

(* The arbiter under the messages of the others. *)
Safety(data) ==
    /\ nodesUp
    /\ onSafety(data)
    /\ UNCHANGED <<padVars, teleopVars, scriptVars>>

Arbitrate == nodesUp /\ Timer /\ UNCHANGED chainVars

-----------------------------------------------------------------------------
(* stop_robot.sh: first the teleoperation node, then a zero velocity and   *)
(* the motors, then the other nodes.  The two ros2 commands run under a    *)
(* time limit and may have no effect.                                      *)
scriptStep(from, to, wait) ==
    /\ script = from
    /\ now >= script_at + wait
    /\ script' = to
    /\ script_at' = now

StopTeleop ==
    /\ scriptStep("none", "teleop_down", 0)
    /\ teleop_up' = FALSE
    /\ UNCHANGED <<vars, padVars, held, teleop_due>>

(* Slip: no pause after the teleoperation node. *)
pause_Slip_None == 0
(* The pause lets the input of the arbiter grow old. *)
pause == script_sleep

PublishZero ==
    /\ scriptStep("teleop_down", "zero_sent", pause + command_time)
    /\ cmd' \in {zero, cmd}
    /\ UNCHANGED <<no_joy_mode, safety, safety_stamp, inputVars, gateVars, prev_safety,
                   estop, prev_estop_btn, now, due, burst, owed, slow_since>>
    /\ UNCHANGED <<padVars, teleopVars>>

TorqueOffAndKill ==
    /\ scriptStep("zero_sent", "nodes_down", command_time)
    /\ UNCHANGED <<vars, padVars, teleopVars>>

(* Timers are served before the clock moves on. *)
Tick ==
    /\ nodesUp
    /\ teleop_up => now < teleop_due
    /\ Advance
    /\ UNCHANGED chainVars

DriveNext ==
    \/ TeleopTimer
    \/ \E p \in Pads : Grip(p)
    \/ LosePad
    \/ \E data \in SafetyData : Safety(data)
    \/ Arbitrate
    \/ StopTeleop \/ PublishZero \/ TorqueOffAndKill
    \/ Tick

DriveSpec == DriveInit /\ [][DriveNext]_<<vars, chainVars>>

-----------------------------------------------------------------------------
(* Letting go of everything stops the robot, whatever the safety state:    *)
(* one period of the teleoperation node and one of the arbiter later the   *)
(* command is zero, although joy_node sends a single message and three     *)
(* nodes pass it on.                                                       *)
ReleasedPadStops ==
    linked /\ teleop_up /\ atRest(pad) /\ now > rest_since + teleop_period + timer_period
        => cmd = zero

(* When stop_robot.sh has killed the arbiter, the last velocity on         *)
(* /cmd_vel, which the motor node may keep, is zero, even if the two ros2  *)
(* commands in between did nothing and whatever the operator still holds.  *)
ShutdownStops == script = "nodes_down" => cmd = zero

-----------------------------------------------------------------------------
(* cmd_vel_arbiter.py, "2. Controller timeout -> zero twist": a controller *)
(* that has not been heard of for joy_timeout stops the robot.             *)
LostPadStops ==
    ~linked /\ script = "none" /\ now > lost_at + joy_timeout + timer_period => cmd = zero
=============================================================================
