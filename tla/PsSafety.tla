------------------------------ MODULE PsSafety ------------------------------
(***************************************************************************)
(* The safety path of the Arty PS: the request loop of                     *)
(* arty/ps_db/tools/ps_classifier_server.c and the safety bridge it calls  *)
(* (arty/ps_db/src/control/ps_safety_bridge.cpp), with the hazard latch    *)
(* and the transmitter thread.                                             *)
(*                                                                         *)
(* The server thread collects the observations of a frame, and judges them *)
(* when the first request of another frame arrives; it blocks in accept,   *)
(* receive, classify and send for as long as the peer or the accelerator   *)
(* takes.  The Jetson is its environment: it sends requests of any frame,  *)
(* or drops the connection at any point.                                   *)
(***************************************************************************)
EXTENDS SafetyTransmitter, SafetyHazardLatch

CONSTANTS
    Unit,                       \* the ratio 1.0 in units of the judgement
    min_objectness,
    frame_width, frame_height,  \* of the camera, in pixels
    sign_hold_ms,               \* Slow is kept this long after a sign
    kMaxDetections,             \* slots for the observations of a frame
    MaxRois,                    \* ROIs the Jetson sends of one frame
    MaxBurst,                   \* bound: requests in one unit of time
    Boxes,                      \* boxes a request may carry, in pixels
    Results,                    \* results a classification may have
    FrameIds,                   \* frame ids (0 is the initial current_frame_id)
    NoRequest                   \* there is no request in hand

(* max_candidates of the RoiProposer (10) is below kMaxDetections (32). *)
ASSUME BridgeAssumption ==
    /\ {Unit, frame_width, frame_height} \subseteq Nat \ {0}
    /\ Unit % frame_width = 0 /\ Unit % frame_height = 0
    /\ {min_objectness, sign_hold_ms} \subseteq Nat
    /\ kMaxDetections \in Nat /\ MaxRois \in Nat /\ MaxRois <= kMaxDetections
    /\ MaxBurst \in Nat
    /\ Boxes \subseteq [objectness : Nat, x : Int, y : Int, width : Int, height : Int]
    /\ Results \subseteq [ok : BOOLEAN, class_id : ClassId]
    /\ 0 \in FrameIds
    /\ NoRequest \notin [frame_id : FrameIds, bbox : Boxes]

VARIABLES
    pc,                         \* where the server thread is
    have_current_frame, current_frame_id,
    request,                    \* the request in hand
    latch,
    pending,                    \* observations of the frame being collected
    pending_background_slow,
    sign_slow_until_ms,
    state,                      \* handle->state: the latest decision
    now_ms,                     \* the time flush_frame read
    (* history *)
    rois,                       \* requests of the current frame
    burst,                      \* requests since the clock last advanced
    judged,                     \* a frame was judged since the last forced Stop
    hazard_since,               \* when a hazard was seen that is not answered yet
    sign_at                     \* when a frame with a sign was last judged

bridgeVars  == <<latch, pending, pending_background_slow, sign_slow_until_ms, state>>
serverVars  == <<pc, have_current_frame, current_frame_id, request, now_ms, rois, burst>>
historyVars == <<judged, hazard_since, sign_at>>
vars        == <<txVars, bridgeVars, serverVars, historyVars>>

Never   == -1
Request == [frame_id : FrameIds, bbox : Boxes]
PC      == {"accept", "recv", "flush", "publish", "classify", "send",
            "stopping", "join", "exit"}

TypeOK ==
    /\ TxTypeOK
    /\ pc \in PC
    /\ have_current_frame \in BOOLEAN
    /\ current_frame_id \in FrameIds
    /\ request \in Request \cup {NoRequest}
    /\ latch \in HazardLatch
    /\ pending \in Seq(DetectionRecord)
    /\ Len(pending) <= kMaxDetections
    /\ pending_background_slow \in BOOLEAN
    /\ sign_slow_until_ms \in Nat
    /\ state \in State
    /\ now_ms \in Nat
    /\ rois \in 0 .. MaxRois
    /\ burst \in 0 .. MaxBurst
    /\ judged \in BOOLEAN
    /\ hazard_since \in Nat \cup {Never}
    /\ sign_at \in Nat \cup {Never}

Init ==
    /\ TxInit
    /\ pc = "accept"
    /\ have_current_frame = FALSE
    /\ current_frame_id = 0
    /\ request = NoRequest
    /\ latch = reset
    /\ pending = << >>
    /\ pending_background_slow = FALSE
    /\ sign_slow_until_ms = 0
    /\ state = Stop
    /\ now_ms = 0
    /\ rois = 0
    /\ burst = 0
    /\ judged = FALSE
    /\ hazard_since = Never
    /\ sign_at = Never

-----------------------------------------------------------------------------
(* ps_safety_add_observation *)

(* A pixel coordinate as a ratio of the frame; both sizes divide Unit, so  *)
(* nothing is rounded.                                                     *)
ratio(v, size) == v * (Unit \div size)

accepted(bbox) ==
    bbox.objectness >= min_objectness /\ bbox.width > 0 /\ bbox.height > 0

(* The record of an observation; a failed classification counts as a       *)
(* person.                                                                 *)
recordOf(bbox, result) ==
    [class_id |-> IF result.ok THEN result.class_id ELSE person,
     score    |-> bbox.objectness,
     x1       |-> ratio(bbox.x, frame_width),
     y1       |-> ratio(bbox.y, frame_height),
     x2       |-> ratio(bbox.x + bbox.width, frame_width),
     y2       |-> ratio(bbox.y + bbox.height, frame_height)]

(* Proposed as an object, classified as background, close and in the path. *)
suspicious(record) == InZone(record) /\ record.y2 - record.y1 >= slow_height

(* Slip: a failed classification is dropped. *)
addObservation_Slip_DropFailed(bbox, result) ==
    IF Len(pending) >= kMaxDetections \/ ~accepted(bbox) \/ ~result.ok
    THEN UNCHANGED <<pending, pending_background_slow>>
    ELSE LET record == recordOf(bbox, result)
         IN  IF result.class_id = background
             THEN /\ pending_background_slow' =
                        (pending_background_slow \/ suspicious(record))
                  /\ UNCHANGED pending
             ELSE /\ pending' = Append(pending, record)
                  /\ UNCHANGED pending_background_slow

addObservation(bbox, result) ==
    IF Len(pending) >= kMaxDetections \/ ~accepted(bbox)
    THEN UNCHANGED <<pending, pending_background_slow>>
    ELSE LET record == recordOf(bbox, result)
         IN  IF result.ok /\ result.class_id = background
             THEN /\ pending_background_slow' =
                        (pending_background_slow \/ suspicious(record))
                  /\ UNCHANGED pending
             ELSE /\ pending' = Append(pending, record)
                  /\ UNCHANGED pending_background_slow

(* The observation is a hazard at Stop that the latch does not mask. *)
isNewHazard(bbox, result) ==
    LET record == recordOf(bbox, result)
    IN  /\ accepted(bbox)
        /\ judgeOne(record) = Stop
        /\ latch.phase = "Idle" \/ record.class_id # latch.latched_class

-----------------------------------------------------------------------------
(* ps_safety_flush_frame, up to the call of publish() *)
signSeen == \E i \in DOMAIN pending :
                isSignClass(pending[i].class_id) /\ judgeOne(pending[i]) = Slow

(* Slip: a sign counts only in the frame that shows it. *)
raised_Slip_NoHold(judgement, slow_until) ==
    IF judgement = Clear /\ (pending_background_slow \/ signSeen)
    THEN Slow ELSE judgement

(* Slip: Slow replaces whatever was judged. *)
raised_Slip_Replace(judgement, slow_until) ==
    IF pending_background_slow \/ now < slow_until THEN Slow ELSE judgement

(* The judgement of the latch, raised to Slow for a suspicious background  *)
(* and for a sign that is still remembered, never lowered.                 *)
raised(judgement, slow_until) ==
    IF \/ judgement = Clear /\ pending_background_slow
       \/ judgement < Slow /\ now < slow_until
    THEN Slow ELSE judgement

flushFrame ==
    /\ sign_slow_until_ms' = IF signSeen THEN now + sign_hold_ms
                              ELSE sign_slow_until_ms
    /\ latch' = update(latch, pending, now)
    /\ state' = raised(latch'.last_state, sign_slow_until_ms')
    /\ pending' = << >>
    /\ pending_background_slow' = FALSE
    /\ now_ms' = now

(* Slip: the decision is changed but not published. *)
forceStop_Slip_Unpublished ==
    /\ pending' = << >>
    /\ pending_background_slow' = FALSE
    /\ sign_slow_until_ms' = 0
    /\ state' = Stop
    /\ judged' = FALSE
    /\ hazard_since' = Never
    /\ sign_at' = Never
    /\ UNCHANGED <<latch, txVars>>

(* ps_safety_force_stop: the latch is not consulted and not reset *)
forceStop ==
    /\ pending' = << >>
    /\ pending_background_slow' = FALSE
    /\ sign_slow_until_ms' = 0
    /\ state' = Stop
    /\ publish(Stop, now)
    /\ judged' = FALSE
    /\ hazard_since' = Never
    /\ sign_at' = Never
    /\ UNCHANGED <<latch, now, thread, wake, transmitter_stop>>

-----------------------------------------------------------------------------
(* The server thread *)

Accept ==
    /\ pc = "accept"
    /\ now <= LastInput
    /\ have_current_frame' = FALSE
    /\ current_frame_id' = 0
    /\ rois' = 0
    /\ pc' = "recv"
    /\ UNCHANGED <<txVars, bridgeVars, request, now_ms, burst, historyVars>>

(* accept failed: leave the loop, ps_safety_stop *)
AcceptFails ==
    /\ pc = "accept"
    /\ now <= LastInput
    /\ forceStop
    /\ pc' = "stopping"
    /\ UNCHANGED <<have_current_frame, current_frame_id, request, now_ms, rois, burst>>

(* A request arrives.  The first of a connection sets the current frame;   *)
(* one of another frame means the current one is complete.                 *)
Receive(r) ==
    /\ pc = "recv"
    /\ now <= LastInput
    /\ LET complete == have_current_frame /\ r.frame_id # current_frame_id
       IN  /\ complete \/ rois < MaxRois
           /\ rois' = IF complete THEN 1 ELSE rois + 1
           /\ pc' = IF complete THEN "flush" ELSE "classify"
           /\ current_frame_id' = IF complete THEN current_frame_id ELSE r.frame_id
    /\ have_current_frame' = TRUE
    /\ request' = r
    /\ burst < MaxBurst
    /\ burst' = burst + 1
    /\ UNCHANGED <<txVars, bridgeVars, now_ms, historyVars>>

(* ps_safety_flush_frame: the judgement ... *)
Flush ==
    /\ pc = "flush"
    /\ flushFrame
    /\ sign_at' = IF signSeen THEN now ELSE sign_at
    /\ pc' = "publish"
    /\ UNCHANGED <<txVars, have_current_frame, current_frame_id, request, rois, burst,
                   judged, hazard_since>>

(* Slip: the decision carries no time of its own. *)
PublishFrame_Slip_NoTime ==
    /\ pc = "publish"
    /\ publish(state, 0)
    /\ current_frame_id' = request.frame_id
    /\ judged' = TRUE
    /\ hazard_since' = IF state = Stop THEN Never ELSE hazard_since
    /\ now_ms' = 0
    /\ pc' = "classify"
    /\ UNCHANGED <<now, thread, wake, transmitter_stop, bridgeVars,
                   have_current_frame, request, rois, burst, sign_at>>

(* ... and its publication, with the time read before the judgement *)
PublishFrame ==
    /\ pc = "publish"
    /\ publish(state, now_ms)
    /\ current_frame_id' = request.frame_id
    /\ judged' = TRUE
    /\ hazard_since' = IF state = Stop THEN Never ELSE hazard_since
    /\ now_ms' = 0
    /\ pc' = "classify"
    /\ UNCHANGED <<now, thread, wake, transmitter_stop, bridgeVars,
                   have_current_frame, request, rois, burst, sign_at>>

(* classify_one returns, correctly or not, and the observation is added *)
Classify(result) ==
    /\ pc = "classify"
    /\ addObservation(request.bbox, result)
    /\ hazard_since' = IF hazard_since = Never /\ isNewHazard(request.bbox, result)
                       THEN now ELSE hazard_since
    /\ pc' = "send"
    /\ UNCHANGED <<txVars, latch, sign_slow_until_ms, state, have_current_frame,
                   current_frame_id, request, now_ms, rois, burst, judged, sign_at>>

Send ==
    /\ pc = "send"
    /\ request' = NoRequest
    /\ pc' = "recv"
    /\ UNCHANGED <<txVars, bridgeVars, have_current_frame, current_frame_id,
                   now_ms, rois, burst, historyVars>>

(* The connection fails in receive or in send: forced Stop, disconnect.    *)
LinkFails ==
    /\ pc \in {"recv", "send"}
    /\ forceStop
    /\ request' = NoRequest
    /\ pc' = "accept"
    /\ UNCHANGED <<have_current_frame, current_frame_id, now_ms, rois, burst>>

(* ps_safety_stop, after the forced Stop: end the thread, then join it *)
SetStopFlag ==
    /\ pc = "stopping"
    /\ transmitter_stop' = TRUE
    /\ pc' = "join"
    /\ UNCHANGED <<now, published, decided_at_ms, decision_seen, sendVars, thread,
                   wake, raised_at, bridgeVars, have_current_frame,
                   current_frame_id, request, now_ms, rois, burst, historyVars>>

Join ==
    /\ pc = "join"
    /\ thread = "done"
    /\ pc' = "exit"
    /\ UNCHANGED <<txVars, bridgeVars, have_current_frame, current_frame_id,
                   request, now_ms, rois, burst, historyVars>>

Server ==
    \/ Accept \/ AcceptFails \/ Flush \/ PublishFrame \/ Send \/ LinkFails
    \/ SetStopFlag \/ Join
    \/ \E r \in Request : Receive(r)
    \/ \E result \in Results : Classify(result)

Transmitter ==
    (RunCheck \/ RunTick) /\ UNCHANGED <<bridgeVars, serverVars, historyVars>>

Pass ==
    /\ Advance
    /\ burst' = 0
    /\ UNCHANGED <<bridgeVars, pc, have_current_frame, current_frame_id, request,
                   now_ms, rois, historyVars>>

Next == Server \/ Transmitter \/ Pass

Spec == Init /\ [][Next]_vars

-----------------------------------------------------------------------------
(* Used by this system, the transmitter is used as it expects: decisions   *)
(* are published in the order of their times, never from the future, and   *)
(* Stop before the thread is ended.  So what SafetyTransmitter promises    *)
(* holds here.                                                             *)
Tx == INSTANCE SafetyTransmitter WITH LastInput <- MaxTime
UsesTransmitter == Tx!TxSpec

(* After the start, and after a connection has failed, nothing but Stop is *)
(* on the UART until a whole frame has been collected and judged, however  *)
(* soon the Jetson reconnects; and nothing seen on the connection before   *)
(* waits to be judged with that frame.                                     *)
NoMoveWithoutFrame ==
    /\ ~judged /\ ~lost => last_sent = Stop
    /\ pc = "recv" /\ ~have_current_frame =>
            pending = << >> /\ ~pending_background_slow

(* A car or person at Stop, and every failed classification in its place,  *)
(* is answered by Stop on the UART within decision_timeout_ms plus the lag *)
(* of the thread, whether the frame is completed, the Jetson falls silent  *)
(* or the connection breaks: collected observations never wait for longer. *)
HazardStops ==
    hazard_since # Never /\ ~lost =>
        \/ last_sent = Stop
        \/ now < hazard_since + decision_timeout_ms + Lag

(* Once a frame has shown a sign, no Clear is decided for sign_hold_ms,    *)
(* unless a forced Stop came between.                                      *)
SignKeepsSlow ==
    published = Clear /\ sign_at # Never /\ pc # "publish" =>
        decided_at_ms >= sign_at + sign_hold_ms

(* While the latch holds Stop, Stop is what is published: no Slow of a     *)
(* sign or of a suspicious background, and no reconnection, replaces it.   *)
HoldIsPublished == held(latch, now) /\ pc # "publish" => published = Stop
=============================================================================
