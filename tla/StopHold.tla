------------------------------ MODULE StopHold ------------------------------
(***************************************************************************)
(* What the hazard latch promises of its output alone: a Stop, once it is  *)
(* given, is given for at least Hold time units.  Nothing is said of what  *)
(* is seen, and Stop may be kept for longer.                               *)
(***************************************************************************)
EXTENDS Integers

CONSTANTS Hold, Level, StopLevel

VARIABLES
    out,        \* the state last given
    since,      \* when out last became StopLevel
    now

Init == out \in Level \ {StopLevel} /\ since = 0 /\ now = 0

Pass == now' = now + 1 /\ UNCHANGED <<out, since>>

EnterStop ==
    /\ out # StopLevel
    /\ out' = StopLevel
    /\ since' = now
    /\ UNCHANGED now

LeaveStop ==
    /\ out = StopLevel
    /\ now - since >= Hold
    /\ out' \in Level \ {StopLevel}
    /\ UNCHANGED <<since, now>>

(* A change that does not involve Stop. *)
Vary ==
    /\ out # StopLevel
    /\ out' \in Level \ {StopLevel}
    /\ UNCHANGED <<since, now>>

Next == Pass \/ EnterStop \/ LeaveStop \/ Vary
Spec == Init /\ [][Next]_<<out, since, now>>
=============================================================================
