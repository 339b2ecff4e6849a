---------------------------- MODULE SafetyState ----------------------------
(***************************************************************************)
(* The safety state the judgement produces, the UART carries and the robot *)
(* obeys (enum class State in common/include/common/SafetyJudge.hpp).  A   *)
(* larger number is more dangerous, and comparisons rely on that order.    *)
(***************************************************************************)
Clear == 0
Slow  == 1
Stop  == 2
State == {Clear, Slow, Stop}
=============================================================================
