----------------------------- MODULE JetsonLoop -----------------------------
(***************************************************************************)
(* The main loop of the Jetson (jetson/tools/jetson_roi_client.cpp) and    *)
(* what it makes the PS do: a frame is captured and proposed, its ROIs are *)
(* classified one after the other over the one connection, an empty frame  *)
(* sends a heartbeat when nothing was sent for heartbeat_interval_ms, and  *)
(* a lost connection is tried again once per frame.  The PS judges a frame *)
(* when the first request of another one arrives, and forgets what it      *)
(* collected when the connection is lost.                                  *)
(*                                                                         *)
(* The loop has one thread: time passes inside its steps.  Clock readings  *)
(* are kept as ages, which stop counting at MaxAge.  A proposal is always  *)
(* croppable (RoiProposal), so every candidate makes a request.            *)
(***************************************************************************)
EXTENDS Integers, FiniteSetsExt

CONSTANTS
    heartbeat_interval_ms,
    decision_timeout_ms,        \* of the PS: an older decision is Stop
    MaxCapture,                 \* longest wait for a frame and its proposals
    MaxRtt,                     \* longest crop and round trip of a ROI
    MaxRois,                    \* proposals in a frame
    capture_timeout,            \* next() gives up: 1000 ms
    MaxAge,                     \* bound: ages are not counted further
    FrameIdSpan                 \* values of the uint32_t frame_id

(* A frame takes time, so fewer frames than ids pass between heartbeats. *)
ASSUME LoopAssumption ==
    /\ {heartbeat_interval_ms, decision_timeout_ms, MaxCapture, MaxRtt,
        MaxRois, capture_timeout} \subseteq Nat \ {0}
    /\ MaxAge \in Nat
    /\ MaxAge > decision_timeout_ms /\ MaxAge > heartbeat_interval_ms
    /\ FrameIdSpan \in Nat /\ FrameIdSpan > heartbeat_interval_ms + 1

VARIABLES
    pc,                 \* "frame", "rois" or "exit"
    signalled, capture_failed,
    connection,         \* of the client: "none", "live", or "dead" and not noticed
    link,               \* the PS can be reached
    frame_id,
    candidates,         \* requests of this frame
    heartbeat,          \* the one candidate is a heartbeat
    tried,               \* how many of them were tried
    request_age,        \* since last_request_ms
    (* the PS *)
    have_current_frame, current_frame_id,
    received,           \* requests of the current frame that arrived
    judged_age,         \* since the last judgement
    (* history *)
    expected,           \* requests the frame at the PS was to have
    part_judged,        \* a frame was judged of which requests were missing
    calm                \* judged since the link or the camera last failed

loopVars == <<pc, signalled, capture_failed, frame_id, candidates, heartbeat, tried>>
psVars   == <<have_current_frame, current_frame_id, received, expected, part_judged>>
clientVars     == <<loopVars, connection, link, psVars, request_age, judged_age, calm>>

(* The first connection is made before the loop; last_request_ms is 0, long *)
(* ago.                                                                     *)
ClientInit ==
    /\ pc = "frame"
    /\ signalled = FALSE /\ capture_failed = FALSE
    /\ connection = "live" /\ link = TRUE
    /\ frame_id = 0
    /\ candidates = 0 /\ heartbeat = FALSE /\ tried = 0
    /\ request_age = MaxAge
    /\ have_current_frame = FALSE /\ current_frame_id = 0
    /\ received = 0 /\ expected = 0
    /\ judged_age = MaxAge
    /\ part_judged = FALSE
    /\ calm = FALSE

older(age, d) == Min({age + d, MaxAge})

elapse(d) ==
    /\ request_age' = older(request_age, d)
    /\ judged_age'  = older(judged_age, d)

-----------------------------------------------------------------------------
(* The camera *)

heartbeat_frame(proposals, age) ==
    proposals = 0 /\ age >= heartbeat_interval_ms

keepRunning == ~signalled

(* next() returned a frame and the proposer its proposals, after d *)
TakeFrame(d, proposals) ==
    /\ pc = "frame" /\ keepRunning
    /\ elapse(d)
    /\ heartbeat' = heartbeat_frame(proposals, request_age')
    /\ candidates' = IF heartbeat' THEN 1 ELSE proposals
    /\ tried' = 0
    /\ pc' = "rois"
    /\ UNCHANGED <<signalled, capture_failed, frame_id, connection, link,
                   psVars, calm>>

NoFrameCame ==
    /\ pc = "frame" /\ keepRunning
    /\ elapse(capture_timeout)
    /\ calm' = FALSE
    /\ UNCHANGED <<loopVars, connection, link, psVars>>

(* The PS sees the connection end: forced Stop, nothing is kept. *)
psForgets ==
    /\ have_current_frame' = FALSE
    /\ current_frame_id' = 0
    /\ received' = 0
    /\ expected' = 0
    /\ calm' = FALSE
    /\ UNCHANGED part_judged

(* The end of main(): the camera failed or the proposal engine threw, or a *)
(* signal asked for it.                                                    *)
Leave(failed) ==
    /\ pc = "frame"
    /\ failed \/ ~keepRunning
    /\ capture_failed' = failed
    /\ connection' = "none"
    /\ psForgets
    /\ pc' = "exit"
    /\ UNCHANGED <<signalled, frame_id, candidates, heartbeat, tried, link, request_age,
                   judged_age>>

-----------------------------------------------------------------------------
(* A request.  The PS judges the frame before if this is of another one.   *)

psReceives(d) ==
    LET complete == have_current_frame /\ frame_id # current_frame_id
    IN  /\ have_current_frame' = TRUE
        /\ current_frame_id' = frame_id
        /\ received' = IF have_current_frame /\ ~complete THEN received + 1 ELSE 1
        /\ expected' = candidates
        /\ part_judged' = (part_judged \/ (complete /\ received # expected))
        /\ judged_age' = IF complete THEN older(0, d) ELSE older(judged_age, d)
        /\ calm' = (calm \/ complete)

Classify(d) ==
    /\ pc = "rois" /\ tried < candidates
    /\ connection = "live"
    /\ psReceives(d)
    /\ request_age' = older(request_age, d)
    /\ tried' = tried + 1
    /\ UNCHANGED <<pc, signalled, capture_failed, frame_id, candidates, heartbeat,
                   connection, link>>

(* Slip: a connection that failed is made anew at once, in the middle of   *)
(* the frame.                                                              *)
afterFailure_Slip_AtOnce == IF link THEN "live" ELSE "none"
afterFailure == "none"

(* classify() fails: it has disconnected, and the loop goes on. *)
ClassifyFails(d) ==
    /\ pc = "rois" /\ tried < candidates
    /\ connection = "dead"
    /\ elapse(d)
    /\ connection' = afterFailure
    /\ tried' = tried + 1
    /\ UNCHANGED <<pc, signalled, capture_failed, frame_id, candidates, heartbeat, link,
                   psVars, calm>>

(* NotConnected: the remaining candidates of the frame are not sent. *)
ClassifySkipped ==
    /\ pc = "rois" /\ tried < candidates
    /\ connection = "none"
    /\ tried' = tried + 1
    /\ UNCHANGED <<pc, signalled, capture_failed, frame_id, candidates, heartbeat, connection,
                   link, psVars, request_age, judged_age, calm>>

(* Slip: a frame that showed nothing is not counted. *)
nextFrameId_Slip_NotEmpty == IF heartbeat THEN frame_id ELSE (frame_id + 1) % FrameIdSpan

nextFrameId == (frame_id + 1) % FrameIdSpan

(* Slip: a lost connection is not tried again. *)
reconnected_Slip_Never == connection
reconnected == IF connection = "none" /\ link THEN "live" ELSE connection

(* The timer, one attempt to connect, publish() and ++frame_id *)
EndFrame ==
    /\ pc = "rois" /\ tried = candidates
    /\ request_age' = IF candidates # 0 THEN 0 ELSE request_age
    /\ connection' = reconnected
    /\ frame_id' = nextFrameId
    /\ candidates' = 0
    /\ heartbeat' = FALSE
    /\ tried' = 0
    /\ pc' = "frame"
    /\ UNCHANGED <<signalled, capture_failed, link, psVars, judged_age, calm>>

-----------------------------------------------------------------------------
(* SIGINT or SIGTERM *)
SignalLoop ==
    /\ ~signalled
    /\ signalled' = TRUE
    /\ UNCHANGED <<pc, capture_failed, frame_id, candidates, heartbeat, tried, connection, link,
                   psVars, request_age, judged_age, calm>>

(* The PS, or the way to it, goes away and comes back.  The PS forgets its *)
(* session; the client notices at its next request.                        *)
LinkLost ==
    /\ link
    /\ link' = FALSE
    /\ connection' = IF connection = "live" THEN "dead" ELSE connection
    /\ psForgets
    /\ UNCHANGED <<loopVars, request_age, judged_age>>

LinkBack ==
    /\ ~link
    /\ link' = TRUE
    /\ UNCHANGED <<loopVars, connection, psVars, request_age, judged_age, calm>>

Loop ==
    \/ \E d \in 1 .. MaxCapture, n \in 0 .. MaxRois : TakeFrame(d, n)
    \/ NoFrameCame
    \/ \E failed \in BOOLEAN : Leave(failed)
    \/ \E d \in 0 .. MaxRtt : Classify(d)
    \/ \E d \in 0 .. MaxRtt : ClassifyFails(d)
    \/ ClassifySkipped
    \/ EndFrame

Exited == pc = "exit" /\ UNCHANGED clientVars

ClientNext == Loop \/ SignalLoop \/ LinkLost \/ LinkBack \/ Exited

(* The loop is one running thread, whose calls all have a timeout or return *)
(* when the peer does.                                                      *)
ClientSpec == ClientInit /\ [][ClientNext]_clientVars /\ WF_clientVars(Loop)

-----------------------------------------------------------------------------
(* With a camera and a link that work, the PS never finds its decision too *)
(* old, whatever the scene shows: an empty scene does not stop the robot.  *)
(* The heartbeat, the loop's own duration and the frame id that makes the  *)
(* PS judge have to fit together.                                          *)
StaysFresh == calm => judged_age < decision_timeout_ms

(* The PS judges no frame of which a request is missing: a failed request  *)
(* ends the connection and the rest of its frame is not sent on a new one. *)
WholeFramesJudged == ~part_judged

(* When the PS can be reached for good and the camera does not fall        *)
(* silent, judgements go on for ever unless the program is told to end: a  *)
(* broken connection is made again.                                        *)
JudgingResumes ==
    (<>[]link /\ []<>(pc = "rois")) => []<>(judged_age < MaxAge /\ calm)
=============================================================================
