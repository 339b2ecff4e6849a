------------------------- MODULE SafetyHazardLatch -------------------------
(***************************************************************************)
(* The hazard latch, common/src/SafetyHazardLatch.cpp, as operators on its *)
(* record of members: see a hazard, stop, hold hold_ms, go, and do not     *)
(* count the same class again until it has been absent long enough.        *)
(*                                                                         *)
(* LatchMachine runs it by itself, PsSafety inside the safety bridge.      *)
(***************************************************************************)
EXTENDS SafetyJudge

CONSTANTS
    hold_ms,            \* Stop is kept this long, whatever is seen
    release_frames,     \* consecutive frames of absence that end an event
    release_ms          \* and the time they must span; 0: no time condition

ASSUME LatchConfigAssumption ==
    hold_ms \in Nat \ {0} /\ release_frames \in Nat /\ release_ms \in Nat

Phase == {"Idle", "Holding", "Released"}

HazardLatch ==
    [phase           : Phase,
     latched_class   : ClassId \cup {NoClass},
     hold_until_ms   : Nat,
     absent_frames   : Nat,
     absent_since_ms : Nat,
     last_state      : State]

(* The members after construction, and after reset(), which nothing in the *)
(* repository calls.                                                       *)
reset ==
    [phase |-> "Idle", latched_class |-> NoClass, hold_until_ms |-> 0,
     absent_frames |-> 0, absent_since_ms |-> 0, last_state |-> Clear]

-----------------------------------------------------------------------------
(* Stop is still being held: detections are not looked at. *)
held(l, now) == l.phase = "Holding" /\ now < l.hold_until_ms

(* 1. A hold that has run out becomes Released. *)
expireHold(l, now) ==
    IF l.phase = "Holding"
    THEN [l EXCEPT !.phase = "Released",
                   !.absent_frames = 0,
                   !.absent_since_ms = now]
    ELSE l

(* Slip: a frame that shows the class again does not restart the count. *)
trackAbsence_Slip_NoRestart(l, items, now) ==
    IF l.phase # "Released" \/ classPresent(items, l.latched_class) THEN l
    ELSE LET n  == l.absent_frames + 1
             ok == /\ n >= release_frames
                   /\ release_ms = 0 \/ now - l.absent_since_ms >= release_ms
         IN  [l EXCEPT !.absent_frames = n,
                       !.phase         = IF ok THEN "Idle" ELSE @,
                       !.latched_class = IF ok THEN NoClass ELSE @]

(* 2. While Released, count the frames and the time without the latched    *)
(* class; both conditions together end the event.                          *)
trackAbsence(l, items, now) ==
    IF l.phase # "Released" THEN l
    ELSE IF classPresent(items, l.latched_class)
    THEN [l EXCEPT !.absent_frames = 0, !.absent_since_ms = now]
    ELSE LET n         == l.absent_frames + 1
             frames_ok == n >= release_frames
             time_ok   == \/ release_ms = 0
                          \/ /\ now >= l.absent_since_ms
                             /\ now - l.absent_since_ms >= release_ms
             over      == frames_ok /\ time_ok
         IN  [l EXCEPT !.absent_frames = n,
                       !.phase         = IF over THEN "Idle" ELSE @,
                       !.latched_class = IF over THEN NoClass ELSE @]

(* Slip: while an event is Released every hazard is left out, not only its *)
(* class.                                                                  *)
worstNew_Slip_AllHazards(l, items) ==
    LET noHazard(d) == ~isHazardClass(d.class_id)
    IN  judgeWorst(IF l.phase = "Released" THEN SelectSeq(items, noHazard) ELSE items,
                   NoClass)

(* 3. The worst detection, the class of a Released event left out. *)
worstNew(l, items) ==
    judgeWorst(items, IF l.phase = "Released" THEN l.latched_class ELSE NoClass)

(* Slip: the hold is taken off the clock. *)
openEvent_Slip_Minus(l, items, now) ==
    LET worst == worstNew(l, items)
    IN  IF worst.state = Stop
        THEN [l EXCEPT !.phase         = "Holding",
                       !.latched_class = worst.class,
                       !.hold_until_ms = now - hold_ms,
                       !.last_state    = Stop]
        ELSE [l EXCEPT !.last_state = worst.state]

(* 4. A Stop opens a new event; anything less is passed on. *)
openEvent(l, items, now) ==
    LET worst == worstNew(l, items)
    IN  IF worst.state = Stop
        THEN [l EXCEPT !.phase         = "Holding",
                       !.latched_class = worst.class,
                       !.hold_until_ms = now + hold_ms,
                       !.last_state    = Stop]
        ELSE [l EXCEPT !.last_state = worst.state]

(* update(): one frame.  The state it returns is last_state. *)
update(l, items, now) ==
    IF held(l, now)
    THEN [l EXCEPT !.last_state = Stop]
    ELSE openEvent(trackAbsence(expireHold(l, now), items, now), items, now)
=============================================================================
