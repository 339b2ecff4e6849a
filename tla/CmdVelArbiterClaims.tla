------------------------- MODULE CmdVelArbiterClaims -------------------------
(***************************************************************************)
(* A statement of cmd_vel_arbiter.py about the resume gate that its timer  *)
(* callback does not keep.  The variable added here retells when the gate  *)
(* should be armed.                                                        *)
(***************************************************************************)
EXTENDS CmdVelArbiter

VARIABLE estop_owed     \* no neutral input since the emergency stop was active

ClaimInit == Init /\ estop_owed = FALSE

ClaimNext ==
    /\ Next
    /\ estop_owed' = (estop' \/ (estop_owed /\ ~atNeutral(input')))

ClaimSpec == ClaimInit /\ [][ClaimNext]_<<vars, estop_owed>>

(* _arm_resume says that the gate asks for neutral after any forced stop,  *)
(* which the emergency stop of the Back button is.                         *)
EStopArmsGate == cmd # zero => ~estop_owed
=============================================================================
