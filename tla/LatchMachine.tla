---------------------------- MODULE LatchMachine ----------------------------
(***************************************************************************)
(* The hazard latch run by itself: frames arrive with any detections and   *)
(* the steady clock of the caller advances between them.  The variables    *)
(* below the line are history, written here and read only by the           *)
(* properties: they retell from the frames alone what the latch should     *)
(* know.                                                                   *)
(***************************************************************************)
EXTENDS SafetyHazardLatch

CONSTANTS
    Frames,         \* the frames that may arrive: sequences of detections
    MaxTime,        \* bound: the clock stops here
    MaxBurst        \* bound: frames in one unit of time

ASSUME MachineAssumption ==
    Frames \subseteq Seq(DetectionRecord) /\ MaxTime \in Nat /\ MaxBurst \in Nat

VARIABLES
    latch,          \* the members of HazardLatch
    now,
    burst,          \* frames since the clock last advanced
    (* history *)
    since,          \* when the output last became Stop
    last,           \* class of the latest event
    owed,           \* that class has not been absent long enough since
    unseen_frames,  \* frames in a row without that class
    unseen_since    \* when it was last seen

history   == <<since, last, owed, unseen_frames, unseen_since>>
latchVars == <<latch, now, burst, history>>

LatchTypeOK ==
    /\ latch \in HazardLatch
    /\ now \in 0 .. MaxTime
    /\ burst \in 0 .. MaxBurst
    /\ since \in Nat
    /\ last \in ClassId \cup {NoClass}
    /\ owed \in BOOLEAN
    /\ unseen_frames \in Nat
    /\ unseen_since \in Nat

LatchInit ==
    /\ latch = reset
    /\ now = 0
    /\ burst = 0
    /\ since = 0
    /\ last = NoClass
    /\ owed = FALSE
    /\ unseen_frames = 0
    /\ unseen_since = 0

(* l2 is l1 with a new event: a hold that ends later than any before. *)
opened(l1, l2) ==
    l2.phase = "Holding"
        /\ (l1.phase # "Holding" \/ l2.hold_until_ms # l1.hold_until_ms)

(* The class of the latest event after this frame, whether it is still     *)
(* owed an absence, and the absence so far.                                *)
Remember(items) ==
    IF opened(latch, latch')
    THEN /\ last' = latch'.latched_class
         /\ owed' = TRUE
         /\ unseen_frames' = 0
         /\ unseen_since' = now
    ELSE /\ last' = last
         /\ IF classPresent(items, last)
            THEN unseen_frames' = 0 /\ unseen_since' = now /\ owed' = owed
            ELSE /\ unseen_frames' = unseen_frames + 1
                 /\ unseen_since' = unseen_since
                 /\ owed' = (owed /\ ~(/\ unseen_frames + 1 >= release_frames
                                       /\ now - unseen_since >= release_ms))

(* update() on one frame *)
Frame(items) ==
    /\ burst < MaxBurst
    /\ burst' = burst + 1
    /\ latch' = update(latch, items, now)
    /\ since' = IF latch.last_state # Stop /\ latch'.last_state = Stop
                THEN now ELSE since
    /\ Remember(items)
    /\ UNCHANGED now

Pass ==
    /\ now < MaxTime
    /\ now' = now + 1
    /\ burst' = 0
    /\ UNCHANGED <<latch, history>>

LatchNext == Pass \/ \E items \in Frames : Frame(items)

LatchSpec == LatchInit /\ [][LatchNext]_latchVars

-----------------------------------------------------------------------------
(* The latch implements StopHold: once update() answers Stop it answers    *)
(* Stop to every frame of the next hold_ms, whatever the frames show.      *)
Output == INSTANCE StopHold WITH out <- latch.last_state, Hold <- hold_ms,
                                 Level <- State, StopLevel <- Stop
HoldsStop == Output!Spec

(* No early retrigger: the class of the latest event opens no new event    *)
(* until the frames have gone release_frames in a row, over release_ms,    *)
(* without it.                                                             *)
NoEarlyRetrigger ==
    [][opened(latch, latch') /\ owed => latch'.latched_class # last]_latchVars

(* The latch masks the class of the latest event and nothing else: a frame *)
(* that is at Stop without that class (without any exception once the      *)
(* latch is Idle) is answered with Stop, in every phase.                   *)
NewHazardStops ==
    [][\A s \in Frames :
        LET masked == IF latch.phase = "Idle" THEN NoClass ELSE last
        IN  Frame(s) /\ judgeWorst(s, masked).state = Stop
                => latch'.last_state = Stop]_latchVars

(* Why these hold: only car and person open events, the phase and the      *)
(* answer of the latch agree, a hold never ends early, the counters of the *)
(* latch never run ahead of the absence the frames show, and an event that *)
(* is owed an absence is the one latched.                                  *)
LatchInv ==
    /\ latch.phase = "Holding" <=> latch.last_state = Stop
    /\ latch.phase = "Holding" =>
        /\ latch.hold_until_ms >= since + hold_ms
        /\ latch.hold_until_ms <= now + hold_ms
    /\ latch.phase # "Idle" => latch.latched_class = last
    /\ latch.phase = "Idle" => ~owed
    /\ latch.phase = "Released" =>
        /\ latch.absent_frames <= unseen_frames
        /\ latch.absent_since_ms >= unseen_since
        /\ latch.absent_since_ms <= now
    /\ unseen_since <= now
    /\ since <= now
    /\ last \in {NoClass, car, person}
=============================================================================
