-------------------------- MODULE MCArbiterClaims --------------------------
(***************************************************************************)
(* The controller at rest, pushed with the deadman button, and with the    *)
(* emergency stop, under a safety state that stays Clear or comes late.    *)
(***************************************************************************)
EXTENDS CmdVelArbiterClaims

Pad(buttons, lin) == [buttons |-> buttons, lin |-> lin, ang |-> 0]

MCJoy    == { Pad({"LB"}, 8), Pad({"LB"}, -100), Pad({"LB", "Back"}, -100) }
MCManual == { zero }
MinusOne == -1
=============================================================================
