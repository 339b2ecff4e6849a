------------------------------ MODULE MCJetson ------------------------------
(***************************************************************************)
(* The Jetson: its main loop with what it makes the PS do, the camera with *)
(* its two threads, and the stream server.  part says which of them runs   *)
(* in a behaviour; the others stay as they start.                          *)
(*                                                                         *)
(* The loop is in units of 50 ms: heartbeat 150 ms, decision timeout       *)
(* 500 ms, at most 150 ms per frame and 100 ms per ROI.  The driver of the *)
(* camera offers a format with a padded row, one whose stride it left out, *)
(* and two that are refused; of the two lengths of a buffer one is too     *)
(* short for the padded rows.                                              *)
(***************************************************************************)
EXTENDS JetsonLoop, FrameSource, MjpegStream

CameraFormat(w, h, y, b) == [width |-> w, height |-> h, yuyv |-> y, bytesperline |-> b]
SomeFormats == { CameraFormat(2, 2, TRUE, 5), CameraFormat(2, 2, TRUE, 0),
                 CameraFormat(2, 0, TRUE, 4), CameraFormat(2, 2, FALSE, 4) }

VARIABLE part       \* the part that runs
all == <<part, clientVars, captureVars, streamVars>>

MCInit == part \in {"loop", "camera", "stream"} /\ ClientInit /\ CaptureInit /\ StreamInit

MCNext ==
    /\ UNCHANGED part
    /\ \/ part = "loop"   /\ ClientNext  /\ UNCHANGED <<captureVars, streamVars>>
       \/ part = "camera" /\ CaptureNext /\ UNCHANGED <<clientVars, streamVars>>
       \/ part = "stream" /\ StreamNext  /\ UNCHANGED <<clientVars, captureVars>>

(* The fairness of ClientSpec, CaptureSpec and StreamSpec, of the part that *)
(* runs.                                                                   *)
MCFairness ==
    /\ WF_clientVars(part = "loop" /\ Loop)
    /\ WF_captureVars(part = "camera" /\ Capture)
    /\ WF_captureVars(part = "camera" /\ Main)
    /\ WF_streamVars(part = "stream" /\ MainThread)
    /\ WF_streamVars(part = "stream" /\ Encoder)
    /\ WF_streamVars(part = "stream" /\ Acceptor)
    /\ \A v \in Viewers : WF_streamVars(part = "stream" /\ Client(v))
    /\ SF_streamVars(part = "stream" /\ EncoderStores(TRUE))

MCSpec == MCInit /\ [][MCNext]_all /\ MCFairness
=============================================================================
